---- MODULE Spec2Model ----
(***************************************************************************)
(* Voxel sandbox: seeded terrain field with memoised column caches, and    *)
(* the chunk stream manager that builds chunks around the viewer.          *)
(*                                                                         *)
(* Two builds of the program are modelled side by side:                    *)
(*   variant "worlds"  - src/unnamed/part_000 (named worlds, seeds, cache  *)
(*                       reset on world start, no eviction)                *)
(*   variant "stream"  - src/script.js (one fixed world, chunk eviction)   *)
(* Definitions of the second build carry the suffix _s where both builds   *)
(* define the same name differently.                                       *)
(*                                                                         *)
(* Real numbers are fixed-point integers in thousandths (0.05 is 50).      *)
(***************************************************************************)
EXTENDS Integers, Sequences, FiniteSets, TLC

(***************************************************************************)
(* Bounds of the model (the program's world is 756 columns wide with       *)
(* 16-column chunks; the model keeps the shape and shrinks the sizes).     *)
(***************************************************************************)
WorldBound == 2
ChunkBound == 1
RenderBound == 1
CamMargin == 1
MaxSeed == 2
StartBound == 0
\* The world of SpecCache: the smallest one with a column that can carry a tree.
CacheWorldBound == 10
CacheChunkBound == 2
MiniMapBound == 2
FullMapBound == 3
\* A seed whose world has a tree on column (TREE_SPACING, TREE_SPACING).
TreeSeed == 27
\* A seed whose world has a Plains column at the origin whose terrain height is
\* MOUNTAIN_HEIGHT_THRESHOLD.
ThresholdSeed == 182
\* A seed whose world has a tree on column (TREE_SPACING, TREE_SPACING) at
\* terrain height MAX_HEIGHT.
PeakTreeSeed == 81
\* A seed whose world has a dry column of terrain height 2 at the origin.
DryFloorSeed == 4290
\* The world of SpecTrees: the smallest one with two columns a side that can
\* carry a tree.
TreeWorldBound == 16
\* Seeds of SpecTrees: a world with trees on (TREE_SPACING, TREE_SPACING) and
\* on the next lattice column along z, one whose lattice columns lie in the
\* Desert, and one whose lattice columns lie at or below OCEAN_LEVEL + 1.
GroveSeed == 72
DesertSeed == 74
LowSeed == 3

(***************************************************************************)
(* State.  WORLD_SIZE and CHUNK_SIZE are fixed when the program is built;  *)
(* they are state components that Init fixes and no action changes, so     *)
(* that a specification chooses the world it explores.                     *)
(***************************************************************************)
VARIABLES
  variant,              \* which build runs: "worlds" or "stream"
  WORLD_SIZE, CHUNK_SIZE,
  worldSeed, seedOffsetA, seedOffsetB, worldActive,
  terrainHeightCache, waterHeightCache, sandRadiusCache, biomeCache, treeCenterCache,
  flyMode,
  camera,               \* camera.position, [x, z] in world units
  chunks,               \* ChunkManager.chunks: key -> chunk record
  root,                 \* scene root: key -> number of groups of that key attached
  geometries,           \* key -> number of geometries of that key not yet disposed
  pendingBuildQueue, pendingBuildSet,
  pc,                   \* where tick(now) stands: "idle", or "moved" before its update
  call,                 \* the last operation, with what it observed and returned
  run,                  \* the updates made since the manager was last empty
  cameraY,              \* camera.position.y, in thousandths of a world unit
  verticalVelocity,     \* in thousandths of a world unit per second
  sinceSpaceDown,       \* performance.now() - lastSpaceDown in ms, up to ClockCap
  sincePress            \* ms since the last initial keydown of Space reached the page

(***************************************************************************)
(* Program constants.                                                      *)
(***************************************************************************)
MAX_HEIGHT == 21
OCEAN_LEVEL == 8
RIVER_LEVEL == 6
WORLD_CHUNKS == (WORLD_SIZE + CHUNK_SIZE - 1) \div CHUNK_SIZE
RENDER_DISTANCE == WORLD_CHUNKS
RENDER_DISTANCE_s == RenderBound
SHADOW_CAST_DISTANCE == 2
CHUNK_UNLOAD_PADDING == 1
MAX_CHUNK_BUILDS_PER_FRAME == 1

BIOME_PLAINS == 0
BIOME_DESERT == 1
BIOME_SNOW == 2

BLOCK_AIR == 0
BLOCK_STONE == 1
BLOCK_DIRT == 2
BLOCK_GRASS == 3
BLOCK_WOOD == 4
BLOCK_LEAF == 5
BLOCK_WATER == 6
BLOCK_SAND == 7
BLOCK_APPLE == 8
BLOCK_SNOW == 9
BlockTypes == BLOCK_AIR .. BLOCK_SNOW

TREE_SPACING == 6
TREE_CANOPY_RADIUS == 1
TREE_DENSITY_THRESHOLD == 840
TREE_LEAF_CHANCE == 800
TREE_LEAF_CHANCE_s == 200
TREE_APPLE_CHANCE == 80
SAND_WATER_RADIUS == 3
MOUNTAIN_HEIGHT_THRESHOLD == MAX_HEIGHT - 4
CAVE_MIN_Y == 3
CAVE_SCALE == 160
CAVE_THRESHOLD == 780

Seeds == 1 .. MaxSeed

(***************************************************************************)
(* Arithmetic helpers.                                                     *)
(***************************************************************************)
Max(a, b) == IF a >= b THEN a ELSE b
Min(a, b) == IF a <= b THEN a ELSE b
Abs(a) == IF a < 0 THEN -a ELSE a
\* Math.round on a value in thousandths: floor(v + 0.5)
Round(v) == (v + 500) \div 1000
\* THREE.MathUtils.clamp(value, min, max) = max(min, min(max, value))
clamp(value, lo, hi) == Max(lo, Min(hi, value))
\* A store into an Int16Array / Int8Array element wraps to the element width.
ToInt16(v) == ((v + 32768) % 65536) - 32768
ToInt8(v) == ((v + 128) % 256) - 128

(***************************************************************************)
(* Noise kernel.  g is the record of the program's module-level state that *)
(* generation reads and writes: the seed, its two offsets and the caches.  *)
(* hash2 is sin-based in the program; the model keeps its contract (a      *)
(* deterministic value in [0,1) of the seed state and the coordinates)     *)
(* with an integer scramble.  Coordinates and results are in thousandths.  *)
(***************************************************************************)
HashMod == 99991
hash2(g, x, z) ==
  LET u == ((x + g.seedOffsetA) % HashMod) * 1271
           + ((z + g.seedOffsetB) % HashMod) * 3117
           + (g.worldSeed % 997) * 13
      s == u % 7919
  IN (((s * s) % 1009) + ((s * 37) % 1013) + s) % 1000

\* a + (b - a) * t, the interpolation smoothNoise does three times
lerp(a, b, t) == a + ((b - a) * t) \div 1000
\* t * t * (3 - 2 * t)
smoothstep(t) == (t * t * (3000 - 2 * t)) \div 1000000

smoothNoise(g, x, z) ==
  LET x0 == x \div 1000
      z0 == z \div 1000
      tx == x - x0 * 1000
      tz == z - z0 * 1000
  IN lerp(lerp(hash2(g, x0 * 1000, z0 * 1000),
               hash2(g, (x0 + 1) * 1000, z0 * 1000), smoothstep(tx)),
          lerp(hash2(g, x0 * 1000, (z0 + 1) * 1000),
               hash2(g, (x0 + 1) * 1000, (z0 + 1) * 1000), smoothstep(tx)),
          smoothstep(tz))

worldColumnIndex(x, z) == x + z * WORLD_SIZE
Columns == 0 .. (WORLD_SIZE * WORLD_SIZE - 1)

\* setWorldSeed: the offsets are (seed % 997) * 0.1337 and (seed % 577) * 0.2811
setWorldSeed(g, seed) ==
  [g EXCEPT !.worldSeed = seed,
            !.seedOffsetA = ((seed % 997) * 1337) \div 10,
            !.seedOffsetB = ((seed % 577) * 2811) \div 10]

EmptyTreeCache == [k \in {} |-> FALSE]

\* resetWorldCaches leaving the terrain heights of the earlier world in place.
resetWorldCaches_keepsHeights(g) ==
  [g EXCEPT !.waterHeightCache = [i \in Columns |-> -1],
            !.sandRadiusCache = [i \in Columns |-> -1],
            !.biomeCache = [i \in Columns |-> -1],
            !.treeCenterCache = EmptyTreeCache]

resetWorldCaches(g) ==
  [g EXCEPT !.terrainHeightCache = [i \in Columns |-> -1],
            !.waterHeightCache = [i \in Columns |-> -1],
            !.sandRadiusCache = [i \in Columns |-> -1],
            !.biomeCache = [i \in Columns |-> -1],
            !.treeCenterCache = EmptyTreeCache]

(***************************************************************************)
(* Terrain field of the "worlds" build.  Every getter takes the generation *)
(* state g and returns [v |-> its result, g |-> the state it leaves].      *)
(***************************************************************************)
\* The height formula without its upper clamp.
terrainHeightOf_unclamped(broadN, rollingN, detailN, maskN, ridgeN) ==
  LET mountainMask == (Max(0, maskN - 560) * 1000) \div 440
      mountainHeight == (mountainMask * (550 + ridgeN) * 28) \div 1000
  IN Max(2, Round(2000 + broadN * 10 + rollingN * 6 + detailN * 2 + mountainHeight))

\* The height formula, on the five noise samples it reads.
terrainHeightOf(broadN, rollingN, detailN, maskN, ridgeN) ==
  LET broad == broadN * 10
      rolling == rollingN * 6
      detail == detailN * 2
      mountainMask == (Max(0, maskN - 560) * 1000) \div 440
      mountainRidge == ridgeN
      mountainHeight == (mountainMask * (550 + mountainRidge) * 28) \div 1000
  IN Max(2, Min(MAX_HEIGHT, Round(2000 + broad + rolling + detail + mountainHeight)))

\* terrainHeightCache[cacheIndex] = height; return height
storeTerrainHeight(g, cacheIndex, height) ==
  [v |-> height, g |-> [g EXCEPT !.terrainHeightCache[cacheIndex] = ToInt16(height)]]

\* getTerrainHeightCached with the column wrapped around the world, not clamped.
getTerrainHeightCached_wrapped(g, x, z) ==
  LET clampedX == x % WORLD_SIZE
      clampedZ == z % WORLD_SIZE
      cacheIndex == worldColumnIndex(clampedX, clampedZ)
      cached == g.terrainHeightCache[cacheIndex]
      height == terrainHeightOf(
                  smoothNoise(g, clampedX * 50, clampedZ * 50),
                  smoothNoise(g, clampedX * 120 + 42000, clampedZ * 120 + 12000),
                  smoothNoise(g, clampedX * 230 + 90000, clampedZ * 230 + 37000),
                  smoothNoise(g, clampedX * 13 + 140000, clampedZ * 13 + 70000),
                  smoothNoise(g, clampedX * 28 + 220000, clampedZ * 28 + 160000))
  IN IF cached >= 0
       THEN [v |-> cached, g |-> g]
       ELSE [v |-> height,
             g |-> [g EXCEPT !.terrainHeightCache[cacheIndex] = ToInt16(height)]]

getTerrainHeightCached(g, x, z) ==
  LET clampedX == clamp(x, 0, WORLD_SIZE - 1)
      clampedZ == clamp(z, 0, WORLD_SIZE - 1)
      cacheIndex == worldColumnIndex(clampedX, clampedZ)
      cached == g.terrainHeightCache[cacheIndex]
  IN IF cached >= 0
       THEN [v |-> cached, g |-> g]
       ELSE storeTerrainHeight(g, cacheIndex,
              terrainHeightOf(
                smoothNoise(g, clampedX * 50, clampedZ * 50),
                smoothNoise(g, clampedX * 120 + 42000, clampedZ * 120 + 12000),
                smoothNoise(g, clampedX * 230 + 90000, clampedZ * 230 + 37000),
                smoothNoise(g, clampedX * 13 + 140000, clampedZ * 13 + 70000),
                smoothNoise(g, clampedX * 28 + 220000, clampedZ * 28 + 160000)))

terrainHeight(g, x, z) == getTerrainHeightCached(g, x, z)

\* Successive terrainHeight reads of the columns of a list, in the list's
\* order: the heights read and the state the reads leave.
RECURSIVE readHeights(_, _, _, _)
readHeightsInto(columns, i, acc, r) == readHeights(r.g, columns, i + 1, Append(acc, r.v))
readHeights(g, columns, i, acc) ==
  IF i > Len(columns) THEN [v |-> acc, g |-> g]
  ELSE readHeightsInto(columns, i, acc, terrainHeight(g, columns[i][1], columns[i][2]))

\* The water formula with an ocean surface that is not lifted to the terrain.
waterHeightOf_sunk(h, continental, deepOceanSignal, craterSignal, neighborSum) ==
  LET oceanBlend == deepOceanSignal * 650 + continental * 350
      ocean == IF oceanBlend < 440000 /\ h <= OCEAN_LEVEL + 3
                 THEN OCEAN_LEVEL + (((440000 - oceanBlend) * 4 + 500000) \div 1000000)
                 ELSE -1
      maxCraterWaterHeight == OCEAN_LEVEL + 4
      basin == neighborSum * 10 - h * 40 > 36
      craterDepth == Round((300 - craterSignal) * 8)
  IN IF h <= maxCraterWaterHeight /\ basin /\ craterSignal < 300
       THEN Max(ocean, Max(h, Min(maxCraterWaterHeight, h + Min(3, Max(1, craterDepth)))))
       ELSE ocean

\* The water formula, on the column height h, the three noise samples and the
\* sum of the four neighbour heights.  -1 is "no water".
waterHeightOf(h, continental, deepOceanSignal, craterSignal, neighborSum) ==
  LET oceanBlend == deepOceanSignal * 650 + continental * 350   \* in millionths
      ocean == IF oceanBlend < 440000 /\ h <= OCEAN_LEVEL + 3
                 THEN Max(h, OCEAN_LEVEL + (((440000 - oceanBlend) * 4 + 500000) \div 1000000))
                 ELSE -1
      maxCraterWaterHeight == OCEAN_LEVEL + 4
      \* basinDepth = neighborSum / 4 - h > 0.9
      basin == neighborSum * 10 - h * 40 > 36
      craterDepth == Round((300 - craterSignal) * 8)
  IN IF h <= maxCraterWaterHeight /\ basin /\ craterSignal < 300
       THEN Max(ocean, Max(h, Min(maxCraterWaterHeight, h + Min(3, Max(1, craterDepth)))))
       ELSE ocean

\* The computation of getWaterHeightCached on a cache miss, from the heights
\* of the column and of its four neighbours.
waterHeightFrom(g, clampedX, clampedZ, r) ==
  [v |-> waterHeightOf(r.v[1],
                       smoothNoise(g, clampedX * 16 + 80000, clampedZ * 16 + 11000),
                       smoothNoise(g, clampedX * 10 + 25000, clampedZ * 10 + 91000),
                       smoothNoise(g, clampedX * 70 + 44000, clampedZ * 70 + 59000),
                       r.v[2] + r.v[3] + r.v[4] + r.v[5]),
   g |-> r.g]

\* waterHeightCache[cacheIndex] = encodedHeight; return computedWaterHeight
storeWaterHeight(cacheIndex, computed) ==
  [v |-> computed.v,
   g |-> [computed.g EXCEPT !.waterHeightCache[cacheIndex] =
            ToInt16(IF computed.v < 0 THEN 0 ELSE computed.v + 1)]]

\* getWaterHeightCached storing the water height as it is, 'no water' as -1.
getWaterHeightCached_plain(g, x, z) ==
  LET clampedX == clamp(x, 0, WORLD_SIZE - 1)
      clampedZ == clamp(z, 0, WORLD_SIZE - 1)
      cacheIndex == worldColumnIndex(clampedX, clampedZ)
      cached == g.waterHeightCache[cacheIndex]
      r0 == terrainHeight(g, clampedX, clampedZ)
      r1 == terrainHeight(r0.g, Max(0, clampedX - 1), clampedZ)
      r2 == terrainHeight(r1.g, Min(WORLD_SIZE - 1, clampedX + 1), clampedZ)
      r3 == terrainHeight(r2.g, clampedX, Max(0, clampedZ - 1))
      r4 == terrainHeight(r3.g, clampedX, Min(WORLD_SIZE - 1, clampedZ + 1))
      computedWaterHeight ==
        waterHeightOf(r0.v,
                      smoothNoise(g, clampedX * 16 + 80000, clampedZ * 16 + 11000),
                      smoothNoise(g, clampedX * 10 + 25000, clampedZ * 10 + 91000),
                      smoothNoise(g, clampedX * 70 + 44000, clampedZ * 70 + 59000),
                      r1.v + r2.v + r3.v + r4.v)
  IN IF cached >= 0
       THEN [v |-> cached, g |-> g]
       ELSE [v |-> computedWaterHeight,
             g |-> [r4.g EXCEPT !.waterHeightCache[cacheIndex] = ToInt16(computedWaterHeight)]]

getWaterHeightCached(g, x, z) ==
  LET clampedX == clamp(x, 0, WORLD_SIZE - 1)
      clampedZ == clamp(z, 0, WORLD_SIZE - 1)
      cacheIndex == worldColumnIndex(clampedX, clampedZ)
      cached == g.waterHeightCache[cacheIndex]
  IN IF cached >= 0
       THEN [v |-> cached - 1, g |-> g]
       ELSE storeWaterHeight(cacheIndex,
              waterHeightFrom(g, clampedX, clampedZ,
                readHeights(g, << <<clampedX, clampedZ>>,
                                  <<Max(0, clampedX - 1), clampedZ>>,
                                  <<Min(WORLD_SIZE - 1, clampedX + 1), clampedZ>>,
                                  <<clampedX, Max(0, clampedZ - 1)>>,
                                  <<clampedX, Min(WORLD_SIZE - 1, clampedZ + 1)>> >>,
                            1, <<>>)))

waterHeight(g, x, z) == getWaterHeightCached(g, x, z)

\* waterHeight >= terrainHeight, the two reads in the code's order
waterReaches(w, t) == [v |-> w.v >= t.v, g |-> t.g]
hasWaterUnder(x, z, w) == waterReaches(w, terrainHeight(w.g, x, z))
hasWaterAt(g, x, z) == hasWaterUnder(x, z, waterHeight(g, x, z))

\* The inner loop of hasWaterInRadiusCached's scan, dx = lo .. hi of the row
\* dz: the first hit returns.  Ranges are halved so that evaluation stays
\* shallow; the columns are visited in the loop's order.
RECURSIVE scanWaterRow(_, _, _, _, _, _, _)
scanWaterRow(g, clampedX, nz, radius, dz, lo, hi) ==
  IF lo = hi
    THEN LET nx == clampedX + lo
         IN IF nx < 0 \/ nx >= WORLD_SIZE \/ Abs(lo) + Abs(dz) > radius
              THEN [v |-> FALSE, g |-> g]
            ELSE hasWaterAt(g, nx, nz)
  ELSE LET mid == (lo + hi) \div 2
           low == scanWaterRow(g, clampedX, nz, radius, dz, lo, mid)
       IN IF low.v THEN low
          ELSE scanWaterRow(low.g, clampedX, nz, radius, dz, mid + 1, hi)

\* The outer loop, dz = lo .. hi: the rows that lie in the world.
RECURSIVE scanWaterInRadius(_, _, _, _, _, _)
scanWaterInRadius(g, clampedX, clampedZ, radius, lo, hi) ==
  IF lo = hi
    THEN IF clampedZ + lo < 0 \/ clampedZ + lo >= WORLD_SIZE
           THEN [v |-> FALSE, g |-> g]
         ELSE scanWaterRow(g, clampedX, clampedZ + lo, radius, lo, -radius, radius)
  ELSE LET mid == (lo + hi) \div 2
           low == scanWaterInRadius(g, clampedX, clampedZ, radius, lo, mid)
       IN IF low.v THEN low
          ELSE scanWaterInRadius(low.g, clampedX, clampedZ, radius, mid + 1, hi)

\* sandRadiusCache[cacheIndex] = found ? 1 : 0; return found
storeSandRadius(cacheIndex, scan) ==
  [v |-> scan.v,
   g |-> [scan.g EXCEPT !.sandRadiusCache[cacheIndex] = ToInt8(IF scan.v THEN 1 ELSE 0)]]

hasWaterInRadiusCached(g, x, z, radius) ==
  LET clampedX == clamp(x, 0, WORLD_SIZE - 1)
      clampedZ == clamp(z, 0, WORLD_SIZE - 1)
      cacheIndex == worldColumnIndex(clampedX, clampedZ)
      cached == g.sandRadiusCache[cacheIndex]
  IN IF cached >= 0
       THEN [v |-> cached = 1, g |-> g]
       ELSE storeSandRadius(cacheIndex,
              scanWaterInRadius(g, clampedX, clampedZ, radius, -radius, radius))

biomeOf(temperature, humidity) ==
  IF temperature < 300 THEN BIOME_SNOW
  ELSE IF temperature > 640 /\ humidity < 420 THEN BIOME_DESERT
  ELSE BIOME_PLAINS

\* biomeCache[cacheIndex] = biome; return biome
storeBiome(g, cacheIndex, biome) ==
  [v |-> biome, g |-> [g EXCEPT !.biomeCache[cacheIndex] = ToInt8(biome)]]

getBiomeCached(g, x, z) ==
  LET clampedX == clamp(x, 0, WORLD_SIZE - 1)
      clampedZ == clamp(z, 0, WORLD_SIZE - 1)
      cacheIndex == worldColumnIndex(clampedX, clampedZ)
      cached == g.biomeCache[cacheIndex]
  IN IF cached >= 0
       THEN [v |-> cached, g |-> g]
       ELSE storeBiome(g, cacheIndex,
              biomeOf(smoothNoise(g, clampedX * 13 + 123000, clampedZ * 13 + 48000),
                      smoothNoise(g, clampedX * 17 + 11000, clampedZ * 17 + 189000)))

biomeAt(g, x, z) == getBiomeCached(g, x, z)

\* treeCenterCache.set(cacheKey, value); the key `${wx},${wz}` is the pair.
treeCacheSet(g, key, value) ==
  [g EXCEPT !.treeCenterCache =
     [k \in (DOMAIN g.treeCenterCache) \cup {key} |->
        IF k = key THEN value ELSE g.treeCenterCache[k]]]

\* The density draw of isTreeCenter without the slope test.
treeCenterOnSlope_flat(g, wx, wz, centerHeight, biome, n) ==
  LET treeDensityThreshold == IF biome = BIOME_SNOW THEN 900 ELSE TREE_DENSITY_THRESHOLD
      result == hash2(g, wx * 730 + 5700, wz * 730 + 17100) > treeDensityThreshold
  IN [v |-> result, g |-> treeCacheSet(n.g, <<wx, wz>>, result)]

\* isTreeCenter past its cache: the slope test and the density draw, on the
\* heights of the four neighbours (north, south, east, west).
treeCenterOnSlope(g, wx, wz, centerHeight, biome, n) ==
  LET isSteep == Max(Max(Abs(centerHeight - n.v[1]), Abs(centerHeight - n.v[2])),
                     Max(Abs(centerHeight - n.v[3]), Abs(centerHeight - n.v[4]))) > 2
      treeDensityThreshold == IF biome = BIOME_SNOW THEN 900 ELSE TREE_DENSITY_THRESHOLD
      result == hash2(g, wx * 730 + 5700, wz * 730 + 17100) > treeDensityThreshold
  IN IF isSteep THEN [v |-> FALSE, g |-> treeCacheSet(n.g, <<wx, wz>>, FALSE)]
     ELSE [v |-> result, g |-> treeCacheSet(n.g, <<wx, wz>>, result)]

\* ... the water and desert tests, w being hasWaterAt's answer
treeCenterOffWater(g, wx, wz, centerHeight, biome, w) ==
  IF w.v THEN [v |-> FALSE, g |-> treeCacheSet(w.g, <<wx, wz>>, FALSE)]
  ELSE IF biome = BIOME_DESERT THEN [v |-> FALSE, g |-> treeCacheSet(w.g, <<wx, wz>>, FALSE)]
  ELSE treeCenterOnSlope(g, wx, wz, centerHeight, biome,
         readHeights(w.g, << <<wx, wz - 1>>, <<wx, wz + 1>>, <<wx + 1, wz>>, <<wx - 1, wz>> >>,
                     1, <<>>))

\* ... || short-circuits: hasWaterAt runs only above OCEAN_LEVEL + 1
treeCenterInBiome(g, wx, wz, centerHeight, b) ==
  treeCenterOffWater(g, wx, wz, centerHeight, b.v,
    IF centerHeight <= OCEAN_LEVEL + 1
      THEN [v |-> TRUE, g |-> b.g]
      ELSE hasWaterAt(b.g, wx, wz))

\* ... the biome read, c being the height read of the center
treeCenterOnHeight(g, wx, wz, c) ==
  treeCenterInBiome(g, wx, wz, c.v, biomeAt(c.g, wx, wz))

isTreeCenter(g, wx, wz) ==
  IF wx <= 2 \/ wz <= 2 \/ wx >= WORLD_SIZE - 3 \/ wz >= WORLD_SIZE - 3
    THEN [v |-> FALSE, g |-> g]
  ELSE IF wx % TREE_SPACING /= 0 \/ wz % TREE_SPACING /= 0
    THEN [v |-> FALSE, g |-> g]
  ELSE IF <<wx, wz>> \in DOMAIN g.treeCenterCache
    THEN [v |-> g.treeCenterCache[<<wx, wz>>], g |-> g]
  ELSE treeCenterOnHeight(g, wx, wz, terrainHeight(g, wx, wz))

(***************************************************************************)
(* Vegetation field and voxel resolver of the "worlds" build.              *)
(***************************************************************************)
FloorDiv(a, b) == a \div b
CeilDiv(a, b) == -((-a) \div b)

\* treeClaim with a canopy that reaches half the lattice spacing.
treeClaim_wide(g, tx, tz, wx, y, wz, trunkBaseY) ==
  LET trunkHeight == 4 + (hash2(g, tx * 1000 + 91700, tz * 1000 + 17300) * 2) \div 1000
      trunkTopY == trunkBaseY + trunkHeight - 1
      dx == Abs(wx - tx)
      dz == Abs(wz - tz)
      isInLeafLayer == y >= trunkTopY - 1 /\ y <= trunkTopY
      isInCanopy == dx <= TREE_SPACING \div 2 /\ dz <= TREE_SPACING \div 2
      isTrunkCore == dx = 0 /\ dz = 0 /\ y <= trunkTopY
      hasLeaf == hash2(g, wx * 1910 + y * 470 + 31700, wz * 1370 + y * 730 + 19300)
                    < TREE_LEAF_CHANCE
  IN IF wx = tx /\ wz = tz /\ y >= trunkBaseY /\ y <= trunkTopY THEN BLOCK_WOOD
     ELSE IF wx = tx /\ wz = tz /\ y = trunkTopY + 1 THEN BLOCK_LEAF
     ELSE IF isInLeafLayer /\ isInCanopy /\ ~isTrunkCore /\ hasLeaf THEN BLOCK_LEAF
     ELSE BLOCK_AIR

\* treeClaim with apples at any height of the columns that can carry them.
treeClaim_appleAnyHeight(g, tx, tz, wx, y, wz, trunkBaseY) ==
  LET trunkHeight == 4 + (hash2(g, tx * 1000 + 91700, tz * 1000 + 17300) * 2) \div 1000
      trunkTopY == trunkBaseY + trunkHeight - 1
      dx == Abs(wx - tx)
      dz == Abs(wz - tz)
      isInLeafLayer == y >= trunkTopY - 1 /\ y <= trunkTopY
      isInCanopy == dx <= TREE_CANOPY_RADIUS /\ dz <= TREE_CANOPY_RADIUS
                    /\ dx + dz <= TREE_CANOPY_RADIUS + 1
      isTrunkCore == dx = 0 /\ dz = 0 /\ y <= trunkTopY
      isApplePoint == dx + dz = TREE_CANOPY_RADIUS + 1
                      \/ (dx = TREE_CANOPY_RADIUS /\ dz = TREE_CANOPY_RADIUS)
      hasApple == hash2(g, wx * 690 + y * 210 + 13500, wz * 940 + y * 530 + 44100)
                    < TREE_APPLE_CHANCE
      hasLeaf == hash2(g, wx * 1910 + y * 470 + 31700, wz * 1370 + y * 730 + 19300)
                    < TREE_LEAF_CHANCE
  IN IF wx = tx /\ wz = tz /\ y >= trunkBaseY /\ y <= trunkTopY THEN BLOCK_WOOD
     ELSE IF wx = tx /\ wz = tz /\ y = trunkTopY + 1 THEN BLOCK_LEAF
     ELSE IF isApplePoint /\ hasApple THEN BLOCK_APPLE
     ELSE IF isInLeafLayer /\ isInCanopy /\ ~isTrunkCore /\ hasLeaf THEN BLOCK_LEAF
     ELSE BLOCK_AIR

\* One tree-center candidate (tx, tz) of treeBlockAt's scan: the block it
\* claims at (wx, y, wz), or BLOCK_AIR when the scan goes on.
treeClaim(g, tx, tz, wx, y, wz, trunkBaseY) ==
  LET trunkHeight == 4 + (hash2(g, tx * 1000 + 91700, tz * 1000 + 17300) * 2) \div 1000
      trunkTopY == trunkBaseY + trunkHeight - 1
      dx == Abs(wx - tx)
      dz == Abs(wz - tz)
      leafBottom == trunkTopY - 1
      leafTop == trunkTopY
      isInLeafLayer == y >= leafBottom /\ y <= leafTop
      isInCanopy == dx <= TREE_CANOPY_RADIUS /\ dz <= TREE_CANOPY_RADIUS
                    /\ dx + dz <= TREE_CANOPY_RADIUS + 1
      isTrunkCore == dx = 0 /\ dz = 0 /\ y <= trunkTopY
      isApplePoint == y = leafBottom
                      /\ (dx + dz = TREE_CANOPY_RADIUS + 1
                          \/ (dx = TREE_CANOPY_RADIUS /\ dz = TREE_CANOPY_RADIUS))
      hasApple == hash2(g, wx * 690 + y * 210 + 13500, wz * 940 + y * 530 + 44100)
                    < TREE_APPLE_CHANCE
      hasLeaf == hash2(g, wx * 1910 + y * 470 + 31700, wz * 1370 + y * 730 + 19300)
                    < TREE_LEAF_CHANCE
  IN IF wx = tx /\ wz = tz /\ y >= trunkBaseY /\ y <= trunkTopY THEN BLOCK_WOOD
     ELSE IF wx = tx /\ wz = tz /\ y = trunkTopY + 1 THEN BLOCK_LEAF
     ELSE IF isApplePoint /\ hasApple THEN BLOCK_APPLE
     ELSE IF isInLeafLayer /\ isInCanopy /\ ~isTrunkCore /\ hasLeaf THEN BLOCK_LEAF
     ELSE BLOCK_AIR

\* The nested scan of treeBlockAt: tx outer, tz inner, first claim returns.
\* scanTreeClaim is the step at a tree center, t its terrain read;
\* scanTreeCenter the step at a candidate, c isTreeCenter's answer.
RECURSIVE scanTreeCenters(_, _, _, _, _, _, _, _, _)
scanTreeClaim(g, wx, y, wz, tx, tz, minTreeZ, maxTreeX, maxTreeZ, t, claim) ==
  IF claim /= BLOCK_AIR THEN [v |-> claim, g |-> t.g]
  ELSE scanTreeCenters(t.g, wx, y, wz, tx, tz + TREE_SPACING, minTreeZ, maxTreeX, maxTreeZ)

scanTreeTrunk(g, wx, y, wz, tx, tz, minTreeZ, maxTreeX, maxTreeZ, t) ==
  scanTreeClaim(g, wx, y, wz, tx, tz, minTreeZ, maxTreeX, maxTreeZ, t,
                treeClaim(g, tx, tz, wx, y, wz, t.v + 1))

scanTreeCenter(g, wx, y, wz, tx, tz, minTreeZ, maxTreeX, maxTreeZ, c) ==
  IF ~c.v
    THEN scanTreeCenters(c.g, wx, y, wz, tx, tz + TREE_SPACING, minTreeZ, maxTreeX, maxTreeZ)
  ELSE scanTreeTrunk(g, wx, y, wz, tx, tz, minTreeZ, maxTreeX, maxTreeZ,
                     terrainHeight(c.g, tx, tz))

scanTreeCenters(g, wx, y, wz, tx, tz, minTreeZ, maxTreeX, maxTreeZ) ==
  IF tx > maxTreeX THEN [v |-> BLOCK_AIR, g |-> g]
  ELSE IF tz > maxTreeZ
    THEN scanTreeCenters(g, wx, y, wz, tx + TREE_SPACING, minTreeZ, minTreeZ, maxTreeX, maxTreeZ)
  ELSE scanTreeCenter(g, wx, y, wz, tx, tz, minTreeZ, maxTreeX, maxTreeZ,
                      isTreeCenter(g, tx, tz))

treeBlockAt(g, wx, y, wz) ==
  LET minTreeX == FloorDiv(wx - TREE_CANOPY_RADIUS, TREE_SPACING) * TREE_SPACING
      maxTreeX == CeilDiv(wx + TREE_CANOPY_RADIUS, TREE_SPACING) * TREE_SPACING
      minTreeZ == FloorDiv(wz - TREE_CANOPY_RADIUS, TREE_SPACING) * TREE_SPACING
      maxTreeZ == CeilDiv(wz + TREE_CANOPY_RADIUS, TREE_SPACING) * TREE_SPACING
  IN scanTreeCenters(g, wx, y, wz, minTreeX, minTreeZ, minTreeZ, maxTreeX, maxTreeZ)

\* caveDensity > CAVE_THRESHOLD, on the two cave noise samples
isCave(caveNoiseA, caveNoiseB) == caveNoiseA * 700 + caveNoiseB * 300 > CAVE_THRESHOLD * 1000

\* sandOrGrass without the shoreline: grass whatever the scan answers.
sandOrGrass_grass(sand) ==
  [v |-> BLOCK_GRASS, g |-> sand.g]

\* getVoxelTypeAt inside the world, stage by stage; each stage takes the
\* reads made so far.  sand is hasWaterInRadiusCached's answer,
sandOrGrass(sand) ==
  [v |-> IF sand.v THEN BLOCK_SAND ELSE BLOCK_GRASS, g |-> sand.g]

\* b the biome read of the surface block,
surfaceVoxel(wx, wz, h, b) ==
  IF b.v = BIOME_SNOW \/ h >= MOUNTAIN_HEIGHT_THRESHOLD THEN [v |-> BLOCK_SNOW, g |-> b.g]
  ELSE IF b.v = BIOME_DESERT THEN [v |-> BLOCK_SAND, g |-> b.g]
  ELSE sandOrGrass(hasWaterInRadiusCached(b.g, wx, wz, SAND_WATER_RADIUS))

\* voxelUnderTree carving wherever the cave noise is above the threshold,
\* also at the surface and at the floor.
voxelUnderTree_carveAll(g, wx, y, wz, h, tree) ==
  IF tree.v /= BLOCK_AIR /\ y > h THEN tree
  ELSE IF y > h THEN [v |-> BLOCK_AIR, g |-> tree.g]
  ELSE IF isCave(smoothNoise(g, wx * CAVE_SCALE + y * 120 + 300000,
                                wz * CAVE_SCALE + y * 90 + 500000),
                 smoothNoise(g, wx * ((CAVE_SCALE * 18) \div 10) + y * 200 + 30000,
                                wz * ((CAVE_SCALE * 18) \div 10) + y * 160 + 90000))
    THEN [v |-> BLOCK_AIR, g |-> tree.g]
  ELSE IF y <= 1 THEN [v |-> BLOCK_STONE, g |-> tree.g]
  ELSE IF y = h THEN surfaceVoxel(wx, wz, h, biomeAt(tree.g, wx, wz))
  ELSE IF y >= h - 2 THEN [v |-> BLOCK_DIRT, g |-> tree.g]
  ELSE [v |-> BLOCK_STONE, g |-> tree.g]

\* tree the answer of treeBlockAt,
voxelUnderTree(g, wx, y, wz, h, tree) ==
  IF tree.v /= BLOCK_AIR /\ y > h THEN tree
  ELSE IF y > h THEN [v |-> BLOCK_AIR, g |-> tree.g]
  ELSE IF y > CAVE_MIN_Y /\ y < h - 1
          /\ isCave(smoothNoise(g, wx * CAVE_SCALE + y * 120 + 300000,
                                   wz * CAVE_SCALE + y * 90 + 500000),
                    smoothNoise(g, wx * ((CAVE_SCALE * 18) \div 10) + y * 200 + 30000,
                                   wz * ((CAVE_SCALE * 18) \div 10) + y * 160 + 90000))
    THEN [v |-> BLOCK_AIR, g |-> tree.g]
  ELSE IF y <= 1 THEN [v |-> BLOCK_STONE, g |-> tree.g]
  ELSE IF y = h THEN surfaceVoxel(wx, wz, h, biomeAt(tree.g, wx, wz))
  ELSE IF y >= h - 2 THEN [v |-> BLOCK_DIRT, g |-> tree.g]
  ELSE [v |-> BLOCK_STONE, g |-> tree.g]

\* w the water height read,
voxelUnderWater(g, wx, y, wz, h, w) ==
  IF y > h /\ y <= w.v THEN [v |-> BLOCK_WATER, g |-> w.g]
  ELSE voxelUnderTree(g, wx, y, wz, h, treeBlockAt(w.g, wx, y, wz))

\* t the terrain height read.
voxelOverTerrain(g, wx, y, wz, t) ==
  voxelUnderWater(g, wx, y, wz, t.v, waterHeight(t.g, wx, wz))

\* getVoxelTypeAt without the test of wx and wz: the getters clamp the column.
getVoxelTypeAt_clamped(g, wx, y, wz) ==
  IF y < 0 \/ y > MAX_HEIGHT
    THEN [v |-> BLOCK_AIR, g |-> g]
  ELSE
    LET t == terrainHeight(g, wx, wz)
        h == t.v
        w == waterHeight(t.g, wx, wz)
        waterSurface == w.v
        tree == treeBlockAt(w.g, wx, y, wz)
        caveNoiseA == smoothNoise(g, wx * CAVE_SCALE + y * 120 + 300000,
                                     wz * CAVE_SCALE + y * 90 + 500000)
        caveNoiseB == smoothNoise(g, wx * ((CAVE_SCALE * 18) \div 10) + y * 200 + 30000,
                                     wz * ((CAVE_SCALE * 18) \div 10) + y * 160 + 90000)
        b == biomeAt(tree.g, wx, wz)
        sand == hasWaterInRadiusCached(b.g, wx, wz, SAND_WATER_RADIUS)
    IN IF y > h /\ y <= waterSurface THEN [v |-> BLOCK_WATER, g |-> w.g]
       ELSE IF tree.v /= BLOCK_AIR /\ y > h THEN tree
       ELSE IF y > h THEN [v |-> BLOCK_AIR, g |-> tree.g]
       ELSE IF y > CAVE_MIN_Y /\ y < h - 1 /\ isCave(caveNoiseA, caveNoiseB)
         THEN [v |-> BLOCK_AIR, g |-> tree.g]
       ELSE IF y <= 1 THEN [v |-> BLOCK_STONE, g |-> tree.g]
       ELSE IF y = h
         THEN IF b.v = BIOME_SNOW \/ h >= MOUNTAIN_HEIGHT_THRESHOLD
                THEN [v |-> BLOCK_SNOW, g |-> b.g]
              ELSE IF b.v = BIOME_DESERT THEN [v |-> BLOCK_SAND, g |-> b.g]
              ELSE IF sand.v THEN [v |-> BLOCK_SAND, g |-> sand.g]
              ELSE [v |-> BLOCK_GRASS, g |-> sand.g]
       ELSE IF y >= h - 2 THEN [v |-> BLOCK_DIRT, g |-> tree.g]
       ELSE [v |-> BLOCK_STONE, g |-> tree.g]

\* getVoxelTypeAt with the water test one short: the surface layer is left out.
getVoxelTypeAt_waterBelow(g, wx, y, wz) ==
  IF wx < 0 \/ wz < 0 \/ wx >= WORLD_SIZE \/ wz >= WORLD_SIZE \/ y < 0 \/ y > MAX_HEIGHT
    THEN [v |-> BLOCK_AIR, g |-> g]
  ELSE
    LET t == terrainHeight(g, wx, wz)
        h == t.v
        w == waterHeight(t.g, wx, wz)
        waterSurface == w.v
        tree == treeBlockAt(w.g, wx, y, wz)
        caveNoiseA == smoothNoise(g, wx * CAVE_SCALE + y * 120 + 300000,
                                     wz * CAVE_SCALE + y * 90 + 500000)
        caveNoiseB == smoothNoise(g, wx * ((CAVE_SCALE * 18) \div 10) + y * 200 + 30000,
                                     wz * ((CAVE_SCALE * 18) \div 10) + y * 160 + 90000)
        b == biomeAt(tree.g, wx, wz)
        sand == hasWaterInRadiusCached(b.g, wx, wz, SAND_WATER_RADIUS)
    IN IF y > h /\ y < waterSurface THEN [v |-> BLOCK_WATER, g |-> w.g]
       ELSE IF tree.v /= BLOCK_AIR /\ y > h THEN tree
       ELSE IF y > h THEN [v |-> BLOCK_AIR, g |-> tree.g]
       ELSE IF y > CAVE_MIN_Y /\ y < h - 1 /\ isCave(caveNoiseA, caveNoiseB)
         THEN [v |-> BLOCK_AIR, g |-> tree.g]
       ELSE IF y <= 1 THEN [v |-> BLOCK_STONE, g |-> tree.g]
       ELSE IF y = h
         THEN IF b.v = BIOME_SNOW \/ h >= MOUNTAIN_HEIGHT_THRESHOLD
                THEN [v |-> BLOCK_SNOW, g |-> b.g]
              ELSE IF b.v = BIOME_DESERT THEN [v |-> BLOCK_SAND, g |-> b.g]
              ELSE IF sand.v THEN [v |-> BLOCK_SAND, g |-> sand.g]
              ELSE [v |-> BLOCK_GRASS, g |-> sand.g]
       ELSE IF y >= h - 2 THEN [v |-> BLOCK_DIRT, g |-> tree.g]
       ELSE [v |-> BLOCK_STONE, g |-> tree.g]

getVoxelTypeAt(g, wx, y, wz) ==
  IF wx < 0 \/ wz < 0 \/ wx >= WORLD_SIZE \/ wz >= WORLD_SIZE \/ y < 0 \/ y > MAX_HEIGHT
    THEN [v |-> BLOCK_AIR, g |-> g]
  ELSE voxelOverTerrain(g, wx, y, wz, terrainHeight(g, wx, wz))

(***************************************************************************)
(* Terrain, vegetation and voxel resolver of the "stream" build            *)
(* (src/script.js): no seed, no biome, no caves; rivers and lakes.         *)
(***************************************************************************)
terrainHeightOf_s(broadN, rollingN, detailN) ==
  Max(2, Min(MAX_HEIGHT, Round(2000 + broadN * 10 + rollingN * 6 + detailN * 2)))

getTerrainHeightCached_s(g, x, z) ==
  LET clampedX == clamp(x, 0, WORLD_SIZE - 1)
      clampedZ == clamp(z, 0, WORLD_SIZE - 1)
      cacheIndex == worldColumnIndex(clampedX, clampedZ)
      cached == g.terrainHeightCache[cacheIndex]
  IN IF cached >= 0
       THEN [v |-> cached, g |-> g]
       ELSE storeTerrainHeight(g, cacheIndex,
              terrainHeightOf_s(
                smoothNoise(g, clampedX * 50, clampedZ * 50),
                smoothNoise(g, clampedX * 120 + 42000, clampedZ * 120 + 12000),
                smoothNoise(g, clampedX * 230 + 90000, clampedZ * 230 + 37000)))

terrainHeight_s(g, x, z) == getTerrainHeightCached_s(g, x, z)

\* The water formula of the stream build, on the column height and the five
\* noise samples.  -1 is "no water".
waterHeightOf_s(h, continental, deepOceanSignal, lakeSignal, riverField, riverFieldWarp) ==
  LET riverDistance == Abs(riverField - riverFieldWarp)
      oceanBlend == deepOceanSignal * 650 + continental * 350   \* in millionths
      ocean == IF oceanBlend < 440000 /\ h <= OCEAN_LEVEL + 3
                 THEN Max(h, OCEAN_LEVEL + (((440000 - oceanBlend) * 4 + 500000) \div 1000000))
                 ELSE -1
      river == IF riverDistance < 60 /\ h <= MAX_HEIGHT - 2
                 THEN Max(ocean, Max(h, RIVER_LEVEL))
                 ELSE ocean
      lakeDepth == Round((200 - lakeSignal) * 10)
  IN IF lakeSignal < 200 /\ h >= RIVER_LEVEL - 1 /\ h <= MAX_HEIGHT - 1
       THEN Max(river, h + Min(4, Max(1, lakeDepth)))
       ELSE river

\* The computation of getWaterHeightCached on a cache miss, r0 being the
\* height read of the column.
waterHeightFrom_s(g, clampedX, clampedZ, r0) ==
  [v |-> waterHeightOf_s(r0.v,
                         smoothNoise(g, clampedX * 16 + 80000, clampedZ * 16 + 11000),
                         smoothNoise(g, clampedX * 10 + 25000, clampedZ * 10 + 91000),
                         smoothNoise(g, clampedX * 80 + 44000, clampedZ * 80 + 59000),
                         smoothNoise(g, clampedX * 50 + 132000, clampedZ * 50 + 73000),
                         smoothNoise(g, clampedX * 110 + 211000, clampedZ * 110 + 151000)),
   g |-> r0.g]

getWaterHeightCached_s(g, x, z) ==
  LET clampedX == clamp(x, 0, WORLD_SIZE - 1)
      clampedZ == clamp(z, 0, WORLD_SIZE - 1)
      cacheIndex == worldColumnIndex(clampedX, clampedZ)
      cached == g.waterHeightCache[cacheIndex]
  IN IF cached >= 0
       THEN [v |-> cached - 1, g |-> g]
       ELSE storeWaterHeight(cacheIndex,
              waterHeightFrom_s(g, clampedX, clampedZ,
                                terrainHeight_s(g, clampedX, clampedZ)))

waterHeight_s(g, x, z) == getWaterHeightCached_s(g, x, z)

hasWaterUnder_s(x, z, w) == waterReaches(w, terrainHeight_s(w.g, x, z))
hasWaterAt_s(g, x, z) == hasWaterUnder_s(x, z, waterHeight_s(g, x, z))

\* Successive terrainHeight reads of the stream build, as readHeights.
RECURSIVE readHeights_s(_, _, _, _)
readHeightsInto_s(columns, i, acc, r) ==
  readHeights_s(r.g, columns, i + 1, Append(acc, r.v))
readHeights_s(g, columns, i, acc) ==
  IF i > Len(columns) THEN [v |-> acc, g |-> g]
  ELSE readHeightsInto_s(columns, i, acc, terrainHeight_s(g, columns[i][1], columns[i][2]))

\* isTreeCenter past its cache: the slope test and the density draw, on the
\* heights of the four neighbours (north, south, east, west).
treeCenterOnSlope_s(g, wx, wz, centerHeight, n) ==
  LET isSteep == Max(Max(Abs(centerHeight - n.v[1]), Abs(centerHeight - n.v[2])),
                     Max(Abs(centerHeight - n.v[3]), Abs(centerHeight - n.v[4]))) > 2
      result == hash2(g, wx * 730 + 5700, wz * 730 + 17100) > TREE_DENSITY_THRESHOLD
  IN IF isSteep THEN [v |-> FALSE, g |-> treeCacheSet(n.g, <<wx, wz>>, FALSE)]
     ELSE [v |-> result, g |-> treeCacheSet(n.g, <<wx, wz>>, result)]

\* ... the water test, w being hasWaterAt's answer
treeCenterOffWater_s(g, wx, wz, centerHeight, w) ==
  IF w.v THEN [v |-> FALSE, g |-> treeCacheSet(w.g, <<wx, wz>>, FALSE)]
  ELSE treeCenterOnSlope_s(g, wx, wz, centerHeight,
         readHeights_s(w.g, << <<wx, wz - 1>>, <<wx, wz + 1>>, <<wx + 1, wz>>, <<wx - 1, wz>> >>,
                       1, <<>>))

\* ... || short-circuits: hasWaterAt runs only above OCEAN_LEVEL + 1
treeCenterOnHeight_s(g, wx, wz, c) ==
  treeCenterOffWater_s(g, wx, wz, c.v,
    IF c.v <= OCEAN_LEVEL + 1
      THEN [v |-> TRUE, g |-> c.g]
      ELSE hasWaterAt_s(c.g, wx, wz))

isTreeCenter_s(g, wx, wz) ==
  IF wx <= 2 \/ wz <= 2 \/ wx >= WORLD_SIZE - 3 \/ wz >= WORLD_SIZE - 3
    THEN [v |-> FALSE, g |-> g]
  ELSE IF wx % TREE_SPACING /= 0 \/ wz % TREE_SPACING /= 0
    THEN [v |-> FALSE, g |-> g]
  ELSE IF <<wx, wz>> \in DOMAIN g.treeCenterCache
    THEN [v |-> g.treeCenterCache[<<wx, wz>>], g |-> g]
  ELSE treeCenterOnHeight_s(g, wx, wz, terrainHeight_s(g, wx, wz))

treeClaim_s(g, tx, tz, wx, y, wz, trunkBaseY) ==
  LET trunkHeight == 4 + (hash2(g, tx * 1000 + 91700, tz * 1000 + 17300) * 2) \div 1000
      trunkTopY == trunkBaseY + trunkHeight - 1
      dx == Abs(wx - tx)
      dz == Abs(wz - tz)
      leafBottom == trunkTopY - 1
      leafTop == trunkTopY
      isInLeafLayer == y >= leafBottom /\ y <= leafTop
      isInCanopy == dx <= TREE_CANOPY_RADIUS /\ dz <= TREE_CANOPY_RADIUS
                    /\ dx + dz <= TREE_CANOPY_RADIUS + 1
      isTrunkCore == dx = 0 /\ dz = 0 /\ y <= trunkTopY
      hasLeaf == hash2(g, wx * 1910 + y * 470 + 31700, wz * 1370 + y * 730 + 19300)
                    < TREE_LEAF_CHANCE_s
  IN IF wx = tx /\ wz = tz /\ y >= trunkBaseY /\ y <= trunkTopY THEN BLOCK_WOOD
     ELSE IF wx = tx /\ wz = tz /\ y = trunkTopY + 1 THEN BLOCK_LEAF
     ELSE IF isInLeafLayer /\ isInCanopy /\ ~isTrunkCore /\ hasLeaf THEN BLOCK_LEAF
     ELSE BLOCK_AIR

RECURSIVE scanTreeCenters_s(_, _, _, _, _, _, _, _, _)
scanTreeClaim_s(g, wx, y, wz, tx, tz, minTreeZ, maxTreeX, maxTreeZ, t, claim) ==
  IF claim /= BLOCK_AIR THEN [v |-> claim, g |-> t.g]
  ELSE scanTreeCenters_s(t.g, wx, y, wz, tx, tz + TREE_SPACING, minTreeZ, maxTreeX, maxTreeZ)

scanTreeTrunk_s(g, wx, y, wz, tx, tz, minTreeZ, maxTreeX, maxTreeZ, t) ==
  scanTreeClaim_s(g, wx, y, wz, tx, tz, minTreeZ, maxTreeX, maxTreeZ, t,
                  treeClaim_s(g, tx, tz, wx, y, wz, t.v + 1))

scanTreeCenter_s(g, wx, y, wz, tx, tz, minTreeZ, maxTreeX, maxTreeZ, c) ==
  IF ~c.v
    THEN scanTreeCenters_s(c.g, wx, y, wz, tx, tz + TREE_SPACING, minTreeZ, maxTreeX, maxTreeZ)
  ELSE scanTreeTrunk_s(g, wx, y, wz, tx, tz, minTreeZ, maxTreeX, maxTreeZ,
                       terrainHeight_s(c.g, tx, tz))

scanTreeCenters_s(g, wx, y, wz, tx, tz, minTreeZ, maxTreeX, maxTreeZ) ==
  IF tx > maxTreeX THEN [v |-> BLOCK_AIR, g |-> g]
  ELSE IF tz > maxTreeZ
    THEN scanTreeCenters_s(g, wx, y, wz, tx + TREE_SPACING, minTreeZ, minTreeZ, maxTreeX, maxTreeZ)
  ELSE scanTreeCenter_s(g, wx, y, wz, tx, tz, minTreeZ, maxTreeX, maxTreeZ,
                        isTreeCenter_s(g, tx, tz))

treeBlockAt_s(g, wx, y, wz) ==
  LET minTreeX == FloorDiv(wx - TREE_CANOPY_RADIUS, TREE_SPACING) * TREE_SPACING
      maxTreeX == CeilDiv(wx + TREE_CANOPY_RADIUS, TREE_SPACING) * TREE_SPACING
      minTreeZ == FloorDiv(wz - TREE_CANOPY_RADIUS, TREE_SPACING) * TREE_SPACING
      maxTreeZ == CeilDiv(wz + TREE_CANOPY_RADIUS, TREE_SPACING) * TREE_SPACING
  IN scanTreeCenters_s(g, wx, y, wz, minTreeX, minTreeZ, minTreeZ, maxTreeX, maxTreeZ)

\* getVoxelTypeAt inside the world, stage by stage: tree is the answer of
\* treeBlockAt,
voxelUnderTree_s(y, h, waterSurface, tree) ==
  IF tree.v /= BLOCK_AIR /\ y > h THEN tree
  ELSE IF y > h THEN [v |-> BLOCK_AIR, g |-> tree.g]
  ELSE IF y = h
    THEN [v |-> IF waterSurface >= h THEN BLOCK_DIRT ELSE BLOCK_GRASS, g |-> tree.g]
  ELSE IF y >= h - 2 THEN [v |-> BLOCK_DIRT, g |-> tree.g]
  ELSE [v |-> BLOCK_STONE, g |-> tree.g]

\* w the water height read,
voxelUnderWater_s(wx, y, wz, h, w) ==
  IF y > h /\ y <= w.v THEN [v |-> BLOCK_WATER, g |-> w.g]
  ELSE voxelUnderTree_s(y, h, w.v, treeBlockAt_s(w.g, wx, y, wz))

\* t the terrain height read.
voxelOverTerrain_s(wx, y, wz, t) ==
  voxelUnderWater_s(wx, y, wz, t.v, waterHeight_s(t.g, wx, wz))

getVoxelTypeAt_s(g, wx, y, wz) ==
  IF wx < 0 \/ wz < 0 \/ wx >= WORLD_SIZE \/ wz >= WORLD_SIZE \/ y < 0 \/ y > MAX_HEIGHT
    THEN [v |-> BLOCK_AIR, g |-> g]
  ELSE voxelOverTerrain_s(wx, y, wz, terrainHeight_s(g, wx, wz))

\* The voxel resolver of the running build.
resolveVoxel(g, wx, y, wz) ==
  IF g.build = "stream" THEN getVoxelTypeAt_s(g, wx, y, wz) ELSE getVoxelTypeAt(g, wx, y, wz)

(***************************************************************************)
(* Chunk builder (both builds).                                            *)
(***************************************************************************)
voxelIndex(lx, y, lz) == lx + lz * CHUNK_SIZE + y * CHUNK_SIZE * CHUNK_SIZE

\* The y loop of buildChunkVoxelData for one column, y = lo .. hi: the types,
\* bottom up.  The range is halved so that evaluation stays shallow; the
\* resolver is called in the loop's order.
oneVoxel(r) == [v |-> <<r.v>>, g |-> r.g]
RECURSIVE voxelColumn(_, _, _, _, _)
voxelColumn(g, wx, wz, lo, hi) ==
  IF lo = hi
    THEN oneVoxel(resolveVoxel(g, wx, lo, wz))
  ELSE LET mid == (lo + hi) \div 2
           low == voxelColumn(g, wx, wz, lo, mid)
           high == voxelColumn(low.g, wx, wz, mid + 1, hi)
       IN [v |-> low.v \o high.v, g |-> high.g]

\* The lx loop of one lz row: the row's columns, each a sequence of types.
RECURSIVE voxelRow(_, _, _, _, _, _)
voxelRowWith(minX, minZ, lz, lx, acc, col) ==
  CASE Len(col.v) = MAX_HEIGHT + 1 ->
         voxelRow(col.g, minX, minZ, lz, lx + 1, Append(acc, col.v))
voxelRow(g, minX, minZ, lz, lx, acc) ==
  IF lx >= CHUNK_SIZE THEN [v |-> acc, g |-> g]
  ELSE voxelRowWith(minX, minZ, lz, lx, acc,
                    voxelColumn(g, minX + lx, minZ + lz, 0, MAX_HEIGHT))

\* The lz loop: the rows of the chunk.
RECURSIVE voxelRows(_, _, _, _, _)
voxelRowsWith(minX, minZ, lz, acc, row) ==
  CASE Len(row.v) = CHUNK_SIZE -> voxelRows(row.g, minX, minZ, lz + 1, Append(acc, row.v))
voxelRows(g, minX, minZ, lz, acc) ==
  IF lz >= CHUNK_SIZE THEN [v |-> acc, g |-> g]
  ELSE voxelRowsWith(minX, minZ, lz, acc, voxelRow(g, minX, minZ, lz, 0, <<>>))

\* The Uint8Array of the chunk, from its rows of columns.
voxelBuffer(rows) ==
  [v |-> [i \in 0 .. (CHUNK_SIZE * CHUNK_SIZE * (MAX_HEIGHT + 1) - 1) |->
            rows.v[((i \div CHUNK_SIZE) % CHUNK_SIZE) + 1][(i % CHUNK_SIZE) + 1]
                  [(i \div (CHUNK_SIZE * CHUNK_SIZE)) + 1]],
   g |-> rows.g]

buildChunkVoxelData(g, cx, cz) ==
  voxelBuffer(voxelRows(g, cx * CHUNK_SIZE, cz * CHUNK_SIZE, 0, <<>>))

\* The six face templates: normal, corners and neighbor offset.
faces ==
  << [normal |-> <<1, 0, 0>>, neighbor |-> <<1, 0, 0>>,
      corners |-> << <<1, 0, 0>>, <<1, 0, 1>>, <<1, 1, 1>>, <<1, 1, 0>> >>],
     [normal |-> <<-1, 0, 0>>, neighbor |-> <<-1, 0, 0>>,
      corners |-> << <<0, 0, 0>>, <<0, 1, 0>>, <<0, 1, 1>>, <<0, 0, 1>> >>],
     [normal |-> <<0, 1, 0>>, neighbor |-> <<0, 1, 0>>,
      corners |-> << <<0, 1, 0>>, <<1, 1, 0>>, <<1, 1, 1>>, <<0, 1, 1>> >>],
     [normal |-> <<0, -1, 0>>, neighbor |-> <<0, -1, 0>>,
      corners |-> << <<0, 0, 0>>, <<0, 0, 1>>, <<1, 0, 1>>, <<1, 0, 0>> >>],
     [normal |-> <<0, 0, 1>>, neighbor |-> <<0, 0, 1>>,
      corners |-> << <<0, 0, 1>>, <<0, 1, 1>>, <<1, 1, 1>>, <<1, 0, 1>> >>],
     [normal |-> <<0, 0, -1>>, neighbor |-> <<0, 0, -1>>,
      corners |-> << <<0, 0, 0>>, <<1, 0, 0>>, <<1, 1, 0>>, <<0, 1, 0>> >>] >>

\* voxelAt of buildMaterialGreedyGeometry: inside the chunk it reads the buffer;
\* outside the chunk's x/z range the worlds build asks the voxel resolver and
\* the stream build answers air.
voxelAt(g, voxels, chunkOriginX, chunkOriginZ, x, y, z) ==
  IF y < 0 \/ y > MAX_HEIGHT THEN [v |-> BLOCK_AIR, g |-> g]
  ELSE IF x < 0 \/ z < 0 \/ x >= CHUNK_SIZE \/ z >= CHUNK_SIZE
    THEN IF g.build = "stream" THEN [v |-> BLOCK_AIR, g |-> g]
         ELSE getVoxelTypeAt(g, chunkOriginX + x, y, chunkOriginZ + z)
  ELSE [v |-> voxels[voxelIndex(x, y, z)], g |-> g]

\* isWaterAdjacent: the six neighbours in the order +x -x +y -y +z -z, first hit returns.
adjacent == << <<1, 0, 0>>, <<-1, 0, 0>>, <<0, 1, 0>>, <<0, -1, 0>>, <<0, 0, 1>>, <<0, 0, -1>> >>
isWater(r) == [v |-> r.v = BLOCK_WATER, g |-> r.g]
RECURSIVE isWaterAdjacentFrom(_, _, _, _, _, _, _, _, _)
isWaterAdjacentFrom(g, voxels, ox, oz, x, y, z, lo, hi) ==
  IF lo = hi
    THEN isWater(voxelAt(g, voxels, ox, oz,
                         x + adjacent[lo][1], y + adjacent[lo][2], z + adjacent[lo][3]))
  ELSE LET mid == (lo + hi) \div 2
           low == isWaterAdjacentFrom(g, voxels, ox, oz, x, y, z, lo, mid)
       IN IF low.v THEN low
          ELSE isWaterAdjacentFrom(low.g, voxels, ox, oz, x, y, z, mid + 1, hi)

\* isWaterAdjacent looking at the first neighbour only.
isWaterAdjacent_first(g, voxels, ox, oz, x, y, z) ==
  isWaterAdjacentFrom(g, voxels, ox, oz, x, y, z, 1, 1)

isWaterAdjacent(g, voxels, ox, oz, x, y, z) ==
  isWaterAdjacentFrom(g, voxels, ox, oz, x, y, z, 1, Len(adjacent))

\* The face loop for one voxel of the material, faces lo .. hi: the quads
\* pushed, as [x, y, z, face] in emission order.  faceAgainst is the test of
\* one face against its neighbour n.
faceAgainst(x, y, z, face, n) ==
  IF n.v /= BLOCK_AIR
    THEN [v |-> <<>>, g |-> n.g]
    ELSE [v |-> <<[x |-> x, y |-> y, z |-> z, face |-> face]>>, g |-> n.g]

RECURSIVE voxelFaces(_, _, _, _, _, _, _, _, _, _)
voxelFaces(g, voxels, ox, oz, x, y, z, shouldForceAllFaces, lo, hi) ==
  IF lo = hi
    THEN IF shouldForceAllFaces
           THEN [v |-> <<[x |-> x, y |-> y, z |-> z, face |-> lo]>>, g |-> g]
           ELSE faceAgainst(x, y, z, lo,
                  voxelAt(g, voxels, ox, oz, x + faces[lo].neighbor[1],
                          y + faces[lo].neighbor[2], z + faces[lo].neighbor[3]))
  ELSE LET mid == (lo + hi) \div 2
           low == voxelFaces(g, voxels, ox, oz, x, y, z, shouldForceAllFaces, lo, mid)
           high == voxelFaces(low.g, voxels, ox, oz, x, y, z, shouldForceAllFaces, mid + 1, hi)
       IN [v |-> low.v \o high.v, g |-> high.g]

\* The x loop of one (y, z) row.  meshVoxel is the loop body for a voxel of
\* the material, wa being isWaterAdjacent's answer; meshRowWith goes on with
\* the voxel's quads fs.
RECURSIVE meshRow(_, _, _, _, _, _, _, _, _)
meshRowWith(voxels, materialType, ox, oz, y, z, x, acc, fs) ==
  CASE Len(fs.v) >= 0 ->
         meshRow(fs.g, voxels, materialType, ox, oz, y, z, x + 1, acc \o fs.v)

meshVoxel(voxels, materialType, ox, oz, y, z, x, acc, wa) ==
  meshRowWith(voxels, materialType, ox, oz, y, z, x, acc,
              voxelFaces(wa.g, voxels, ox, oz, x, y, z, wa.v, 1, Len(faces)))

meshRow(g, voxels, materialType, ox, oz, y, z, x, acc) ==
  IF x >= CHUNK_SIZE THEN [v |-> acc, g |-> g]
  ELSE IF voxelAt(g, voxels, ox, oz, x, y, z).v /= materialType
    THEN meshRow(g, voxels, materialType, ox, oz, y, z, x + 1, acc)
  ELSE meshVoxel(voxels, materialType, ox, oz, y, z, x, acc,
                 IF g.build /= "stream" /\ materialType /= BLOCK_WATER
                   THEN isWaterAdjacent(g, voxels, ox, oz, x, y, z)
                   ELSE [v |-> FALSE, g |-> g])

\* The z loop of one y layer.
RECURSIVE meshLayer(_, _, _, _, _, _, _, _)
meshLayerWith(voxels, materialType, ox, oz, y, z, acc, row) ==
  CASE Len(row.v) >= Len(acc) ->
         meshLayer(row.g, voxels, materialType, ox, oz, y, z + 1, row.v)
meshLayer(g, voxels, materialType, ox, oz, y, z, acc) ==
  IF z >= CHUNK_SIZE THEN [v |-> acc, g |-> g]
  ELSE meshLayerWith(voxels, materialType, ox, oz, y, z, acc,
                     meshRow(g, voxels, materialType, ox, oz, y, z, 0, acc))

\* The y loop, y = lo .. hi, halved like voxelColumn: the quads in the loop's order.
RECURSIVE meshLayers(_, _, _, _, _, _, _)
meshLayers(g, voxels, materialType, ox, oz, lo, hi) ==
  IF lo = hi THEN meshLayer(g, voxels, materialType, ox, oz, lo, 0, <<>>)
  ELSE LET mid == (lo + hi) \div 2
           low == meshLayers(g, voxels, materialType, ox, oz, lo, mid)
           high == meshLayers(low.g, voxels, materialType, ox, oz, mid + 1, hi)
       IN [v |-> low.v \o high.v, g |-> high.g]

\* buildMaterialGreedyGeometry: the quads of one material; <<>> stands for the
\* null it returns when nothing was pushed.
buildMaterialGreedyGeometry(g, voxels, materialType, chunkOriginX, chunkOriginZ) ==
  meshLayers(g, voxels, materialType, chunkOriginX, chunkOriginZ, 0, MAX_HEIGHT)

\* pushQuad: four corners and four copies of the normal appended to the
\* position and normal arrays, and the indices of the two triangles
\* (base, base+1, base+2) and (base, base+2, base+3).
pushQuad(geometry, corners, normal) ==
  LET base == Len(geometry.positions) \div 3
  IN [positions |-> geometry.positions
                      \o <<corners[1][1], corners[1][2], corners[1][3]>>
                      \o <<corners[2][1], corners[2][2], corners[2][3]>>
                      \o <<corners[3][1], corners[3][2], corners[3][3]>>
                      \o <<corners[4][1], corners[4][2], corners[4][3]>>,
      normals |-> geometry.normals \o normal \o normal \o normal \o normal,
      indices |-> geometry.indices \o <<base, base + 1, base + 2, base, base + 2, base + 3>>]

\* The corners of a quad: face.corners.map(([cx, cy, cz]) => [x + cx, y + cy, z + cz]).
quadCorners(quad) ==
  [i \in 1 .. 4 |-> <<quad.x + faces[quad.face].corners[i][1],
                      quad.y + faces[quad.face].corners[i][2],
                      quad.z + faces[quad.face].corners[i][3]>>]

\* The pushQuad calls for the quads lo .. hi of a mesh, in emission order.
RECURSIVE pushQuads(_, _, _, _)
pushQuads(geometry, quads, lo, hi) ==
  IF lo > hi THEN geometry
  ELSE IF lo = hi
    THEN pushQuad(geometry, quadCorners(quads[lo]), faces[quads[lo].face].normal)
  ELSE LET mid == (lo + hi) \div 2
           low == pushQuads(geometry, quads, lo, mid)
       IN CASE Len(low.indices) >= 0 -> pushQuads(low, quads, mid + 1, hi)

\* The arrays buildMaterialGreedyGeometry hands to the BufferGeometry.
EmptyGeometry == [positions |-> <<>>, normals |-> <<>>, indices |-> <<>>]
geometryArrays(quads) == pushQuads(EmptyGeometry, quads, 1, Len(quads))

(***************************************************************************)
(* The program state as the two records the operations pass along:         *)
(* G, what generation reads and writes, and M, the ChunkManager.           *)
(***************************************************************************)
G ==
  [build |-> variant, worldSeed |-> worldSeed,
   seedOffsetA |-> seedOffsetA, seedOffsetB |-> seedOffsetB,
   terrainHeightCache |-> terrainHeightCache, waterHeightCache |-> waterHeightCache,
   sandRadiusCache |-> sandRadiusCache, biomeCache |-> biomeCache,
   treeCenterCache |-> treeCenterCache]

M ==
  [chunks |-> chunks, root |-> root, geometries |-> geometries,
   pendingBuildQueue |-> pendingBuildQueue, pendingBuildSet |-> pendingBuildSet]

\* Bags of objects per chunk key (groups attached to the scene root, live
\* geometries): key -> count, keys with count 0 left out.
EmptyBag == [k \in {} |-> 0]
BagCount(b, k) == IF k \in DOMAIN b THEN b[k] ELSE 0
BagPut(b, k, n) ==
  [x \in IF n > 0 THEN (DOMAIN b) \cup {k} ELSE (DOMAIN b) \ {k} |-> IF x = k THEN n ELSE b[x]]
BagAdd(b, k, n) == BagPut(b, k, BagCount(b, k) + n)
BagRemove(b, k, n) == BagPut(b, k, Max(0, BagCount(b, k) - n))

(***************************************************************************)
(* ChunkManager.                                                           *)
(***************************************************************************)
key(cx, cz) == <<cx, cz>>

\* inWorld with its upper bound off by one.
inWorld_upto(cx, cz) == cx >= 0 /\ cz >= 0 /\ cx <= WORLD_CHUNKS /\ cz <= WORLD_CHUNKS

inWorld(cx, cz) == cx >= 0 /\ cz >= 0 /\ cx < WORLD_CHUNKS /\ cz < WORLD_CHUNKS

\* enqueueChunkBuild without the pendingBuildSet test: a pending chunk is
\* queued again.
enqueueChunkBuild_again(m, cx, cz, camChunkX, camChunkZ) ==
  IF key(cx, cz) \in DOMAIN m.chunks \/ ~inWorld(cx, cz)
    THEN m
  ELSE LET distance == Max(Abs(cx - camChunkX), Abs(cz - camChunkZ))
       IN [m EXCEPT !.pendingBuildQueue =
                      Append(@, [cx |-> cx, cz |-> cz, key |-> key(cx, cz), distance |-> distance]),
                    !.pendingBuildSet = @ \cup {key(cx, cz)}]

enqueueChunkBuild(m, cx, cz, camChunkX, camChunkZ) ==
  IF key(cx, cz) \in DOMAIN m.chunks \/ key(cx, cz) \in m.pendingBuildSet \/ ~inWorld(cx, cz)
    THEN m
  ELSE LET distance == Max(Abs(cx - camChunkX), Abs(cz - camChunkZ))
       IN [m EXCEPT !.pendingBuildQueue =
                      Append(@, [cx |-> cx, cz |-> cz, key |-> key(cx, cz), distance |-> distance]),
                    !.pendingBuildSet = @ \cup {key(cx, cz)}]

\* Array.prototype.sort with (a, b) => a.distance - b.distance: stable, so
\* entries of equal distance keep their queue order.
RECURSIVE insertByDistance(_, _)
insertByDistance(sorted, e) ==
  IF sorted = <<>> THEN <<e>>
  ELSE IF sorted[Len(sorted)].distance <= e.distance THEN Append(sorted, e)
  ELSE Append(insertByDistance(SubSeq(sorted, 1, Len(sorted) - 1), e), sorted[Len(sorted)])

RECURSIVE sortByDistance(_, _, _)
sortByDistance(queue, i, sorted) ==
  IF i > Len(queue) THEN sorted
  ELSE sortByDistance(queue, i + 1, insertByDistance(sorted, queue[i]))

\* The material list buildChunk meshes, in its order.
meshTypes(g) ==
  IF g.build = "stream"
    THEN <<BLOCK_STONE, BLOCK_DIRT, BLOCK_GRASS, BLOCK_WOOD, BLOCK_LEAF, BLOCK_WATER>>
    ELSE <<BLOCK_STONE, BLOCK_DIRT, BLOCK_GRASS, BLOCK_WOOD, BLOCK_LEAF, BLOCK_WATER,
           BLOCK_SAND, BLOCK_APPLE, BLOCK_SNOW>>

\* The mesh buildChunk adds for one material: none when
\* buildMaterialGreedyGeometry returned null.
meshOf(type, geometry) ==
  [v |-> IF geometry.v = <<>> THEN <<>>
         ELSE <<[type |-> type, quads |-> Len(geometry.v), castShadow |-> FALSE]>>,
   g |-> geometry.g]

\* The material loop without "if (!geometry) continue": a mesh for every
\* material of the list, with or without quads.
RECURSIVE buildMeshes_keepsEmpty(_, _, _, _, _, _)
buildMeshes_keepsEmpty(g, voxels, chunkOriginX, chunkOriginZ, lo, hi) ==
  IF lo = hi
    THEN LET geometry == buildMaterialGreedyGeometry(g, voxels, meshTypes(g)[lo],
                                                     chunkOriginX, chunkOriginZ)
         IN [v |-> <<[type |-> meshTypes(g)[lo], quads |-> Len(geometry.v),
                      castShadow |-> FALSE]>>,
             g |-> geometry.g]
  ELSE LET mid == (lo + hi) \div 2
           low == buildMeshes_keepsEmpty(g, voxels, chunkOriginX, chunkOriginZ, lo, mid)
           high == buildMeshes_keepsEmpty(low.g, voxels, chunkOriginX, chunkOriginZ, mid + 1, hi)
       IN [v |-> low.v \o high.v, g |-> high.g]

\* The material loop of buildChunk, materials lo .. hi of the list: a mesh per
\* material with geometry.  A mesh is [type, quads (how many its geometry
\* holds), castShadow].
RECURSIVE buildMeshes(_, _, _, _, _, _)
buildMeshes(g, voxels, chunkOriginX, chunkOriginZ, lo, hi) ==
  IF lo = hi
    THEN meshOf(meshTypes(g)[lo],
                buildMaterialGreedyGeometry(g, voxels, meshTypes(g)[lo],
                                            chunkOriginX, chunkOriginZ))
  ELSE LET mid == (lo + hi) \div 2
           low == buildMeshes(g, voxels, chunkOriginX, chunkOriginZ, lo, mid)
           high == buildMeshes(low.g, voxels, chunkOriginX, chunkOriginZ, mid + 1, hi)
       IN [v |-> low.v \o high.v, g |-> high.g]

\* The parts of buildChunk: the meshes of the chunk's voxel buffer, and the
\* chunk added to the map, its group to the scene root.
meshChunk(g, cx, cz, voxels) ==
  buildMeshes(voxels.g, voxels.v, cx * CHUNK_SIZE, cz * CHUNK_SIZE, 1, Len(meshTypes(g)))

addChunk(m, cx, cz, built) ==
  [m |-> [m EXCEPT !.chunks = [k \in (DOMAIN @) \cup {key(cx, cz)} |->
                                 IF k = key(cx, cz)
                                   THEN [cx |-> cx, cz |-> cz, meshes |-> built.v]
                                   ELSE @[k]],
                   !.root = BagAdd(@, key(cx, cz), 1),
                   !.geometries = BagAdd(@, key(cx, cz), Len(built.v))],
   g |-> built.g]

\* buildChunk without the chunks.has(key) test: it builds the key again.
buildChunk_again(m, g, cx, cz) ==
  IF ~inWorld(cx, cz) THEN [m |-> m, g |-> g]
  ELSE LET voxels == buildChunkVoxelData(g, cx, cz)
           built == buildMeshes(voxels.g, voxels.v, cx * CHUNK_SIZE, cz * CHUNK_SIZE, 1, Len(meshTypes(g)))
           chunk == [cx |-> cx, cz |-> cz, meshes |-> built.v]
       IN [m |-> [m EXCEPT !.chunks = [k \in (DOMAIN @) \cup {key(cx, cz)} |->
                                         IF k = key(cx, cz) THEN chunk ELSE @[k]],
                           !.root = BagAdd(@, key(cx, cz), 1),
                           !.geometries = BagAdd(@, key(cx, cz), Len(built.v))],
           g |-> built.g]

\* buildChunk: returns the manager and the generation state it leaves.
buildChunk(m, g, cx, cz) ==
  IF key(cx, cz) \in DOMAIN m.chunks \/ ~inWorld(cx, cz) THEN [m |-> m, g |-> g]
  ELSE addChunk(m, cx, cz, meshChunk(g, cx, cz, buildChunkVoxelData(g, cx, cz)))

unloadChunk(m, chunk) ==
  [m EXCEPT !.root = BagRemove(@, key(chunk.cx, chunk.cz), 1),
            !.geometries = BagRemove(@, key(chunk.cx, chunk.cz), Len(chunk.meshes))]

\* for (const [, chunk] of this.chunks) this.unloadChunk(chunk)
RECURSIVE unloadEach(_, _)
unloadEach(m, keys) ==
  IF keys = {} THEN m
  ELSE LET k == CHOOSE k \in keys : TRUE
       IN unloadEach(unloadChunk(m, m.chunks[k]), keys \ {k})

\* clear without the unloadChunk loop: the groups stay on the scene root.
clear_leak(m) ==
  [m EXCEPT !.chunks = [k \in {} |-> 0],
            !.pendingBuildQueue = <<>>,
            !.pendingBuildSet = {}]

clear(m) ==
  [unloadEach(m, DOMAIN m.chunks) EXCEPT !.chunks = [k \in {} |-> 0],
                                         !.pendingBuildQueue = <<>>,
                                         !.pendingBuildSet = {}]

\* The entry of the build log: the key built and the keys pending when it
\* was taken.
logEntry(m, next) ==
  [key |-> next.key,
   pending |-> {m.pendingBuildQueue[i].key : i \in DOMAIN m.pendingBuildQueue}]

\* The loop without its per-frame cap: it drains the queue in one call.
RECURSIVE processLoop_uncapped(_, _, _, _)
processLoop_uncapped(m, g, built, log) ==
  IF m.pendingBuildQueue /= <<>>
    THEN LET next == Head(m.pendingBuildQueue)
             taken == [m EXCEPT !.pendingBuildQueue = Tail(@),
                                !.pendingBuildSet = @ \ {next.key}]
             b == buildChunk(taken, g, next.cx, next.cz)
         IN IF next.key \notin DOMAIN taken.chunks
              THEN processLoop_uncapped(b.m, b.g, built + 1,
                                        Append(log, [key |-> next.key,
                                                     pending |-> {m.pendingBuildQueue[i].key :
                                                                    i \in DOMAIN m.pendingBuildQueue}]))
            ELSE processLoop_uncapped(taken, g, built, log)
  ELSE [m |-> m, g |-> g, log |-> log]

\* The while loop of processChunkBuildQueue.  log records each build it makes.
\* processBuilt goes on after the build b of the entry taken.
RECURSIVE processLoop(_, _, _, _)
processBuilt(built, log, entry, b) ==
  processLoop(b.m, b.g, built + 1, Append(log, entry))

\* The test of the entry taken turned round: an entry that is not built yet
\* is dropped, as if this.chunks held it.
processTaken_dropped(g, built, log, next, entry, taken) ==
  IF next.key \in DOMAIN taken.chunks
    THEN processBuilt(built, log, entry, buildChunk(taken, g, next.cx, next.cz))
    ELSE processLoop(taken, g, built, log)

processTaken(g, built, log, next, entry, taken) ==
  IF next.key \notin DOMAIN taken.chunks
    THEN processBuilt(built, log, entry, buildChunk(taken, g, next.cx, next.cz))
    ELSE processLoop(taken, g, built, log)

processLoop(m, g, built, log) ==
  IF built < MAX_CHUNK_BUILDS_PER_FRAME /\ m.pendingBuildQueue /= <<>>
    THEN processTaken(g, built, log, Head(m.pendingBuildQueue),
                      logEntry(m, Head(m.pendingBuildQueue)),
                      [m EXCEPT !.pendingBuildQueue = Tail(@),
                                !.pendingBuildSet = @ \ {Head(m.pendingBuildQueue).key}])
  ELSE [m |-> m, g |-> g, log |-> log]

processChunkBuildQueue(m, g) ==
  IF m.pendingBuildQueue = <<>> THEN [m |-> m, g |-> g, log |-> <<>>]
  ELSE processLoop([m EXCEPT !.pendingBuildQueue = sortByDistance(@, 1, <<>>)], g, 0, <<>>)

\* The inner loop of update's offer: the row dz, from dx to distance.
RECURSIVE enqueueRow(_, _, _, _, _, _)
enqueueRow(m, camChunkX, camChunkZ, distance, dz, dx) ==
  IF dx > distance THEN m
  ELSE LET offered == enqueueChunkBuild(m, camChunkX + dx, camChunkZ + dz, camChunkX, camChunkZ)
       IN CASE Len(offered.pendingBuildQueue) >= 0 ->
                 enqueueRow(offered, camChunkX, camChunkZ, distance, dz, dx + 1)

\* The outer loop stopping one short: dz never reaches +distance.
RECURSIVE enqueueAround_short(_, _, _, _, _, _)
enqueueAround_short(m, camChunkX, camChunkZ, distance, dz, dx) ==
  IF dz >= distance THEN m
  ELSE LET row == enqueueRow(m, camChunkX, camChunkZ, distance, dz, dx)
       IN CASE Len(row.pendingBuildQueue) >= 0 ->
                 enqueueAround_short(row, camChunkX, camChunkZ, distance, dz + 1, -distance)

\* The two nested loops of update that offer every coordinate in range: the
\* rows from dz on, the first of them from dx.
RECURSIVE enqueueAround(_, _, _, _, _, _)
enqueueAround(m, camChunkX, camChunkZ, distance, dz, dx) ==
  IF dz > distance THEN m
  ELSE LET row == enqueueRow(m, camChunkX, camChunkZ, distance, dz, dx)
       IN CASE Len(row.pendingBuildQueue) >= 0 ->
                 enqueueAround(row, camChunkX, camChunkZ, distance, dz + 1, -distance)

renderDistance(g) == IF g.build = "stream" THEN RENDER_DISTANCE_s ELSE RENDER_DISTANCE

\* The closing loop without the unloadChunk call: a far chunk leaves the map
\* and stays on the scene root.
RECURSIVE sweepChunks_keepsGroup(_, _, _, _, _)
sweepChunks_keepsGroup(m, g, camChunkX, camChunkZ, keys) ==
  IF keys = {} THEN m
  ELSE LET k == CHOOSE k \in keys : TRUE
           chunk == m.chunks[k]
           dx == chunk.cx - camChunkX
           dz == chunk.cz - camChunkZ
           maxDistance == renderDistance(g) + CHUNK_UNLOAD_PADDING
           castShadow == Max(Abs(dx), Abs(dz)) <= SHADOW_CAST_DISTANCE
       IN IF g.build = "stream" /\ (Abs(dx) > maxDistance \/ Abs(dz) > maxDistance)
            THEN sweepChunks_keepsGroup([m EXCEPT !.chunks = [j \in (DOMAIN @) \ {k} |-> @[j]]],
                                        g, camChunkX, camChunkZ, keys \ {k})
          ELSE sweepChunks_keepsGroup(
                 [m EXCEPT !.chunks[k].meshes =
                             [i \in DOMAIN @ |-> [@[i] EXCEPT !.castShadow = castShadow]]],
                 g, camChunkX, camChunkZ, keys \ {k})

\* The closing loop of update over the built chunks: the stream build unloads
\* and deletes what lies beyond RENDER_DISTANCE + CHUNK_UNLOAD_PADDING, both
\* builds set castShadow on the meshes of the chunks that stay.  (The frustum
\* test that sets group.visible is not modelled.)
RECURSIVE sweepChunks(_, _, _, _, _)
sweepChunks(m, g, camChunkX, camChunkZ, keys) ==
  IF keys = {} THEN m
  ELSE LET k == CHOOSE k \in keys : TRUE
           chunk == m.chunks[k]
           dx == chunk.cx - camChunkX
           dz == chunk.cz - camChunkZ
           maxDistance == renderDistance(g) + CHUNK_UNLOAD_PADDING
           castShadow == Max(Abs(dx), Abs(dz)) <= SHADOW_CAST_DISTANCE
           unloaded == unloadChunk(m, chunk)
       IN IF g.build = "stream" /\ (Abs(dx) > maxDistance \/ Abs(dz) > maxDistance)
            THEN sweepChunks([unloaded EXCEPT !.chunks = [j \in (DOMAIN @) \ {k} |-> @[j]]],
                             g, camChunkX, camChunkZ, keys \ {k})
          ELSE sweepChunks([m EXCEPT !.chunks[k].meshes =
                                       [i \in DOMAIN @ |-> [@[i] EXCEPT !.castShadow = castShadow]]],
                           g, camChunkX, camChunkZ, keys \ {k})

\* update after its offer and its builds: the closing loop and what the call
\* reports (the builds made, the keys pending after the offer).
updateSwept(camChunkX, camChunkZ, offered, processed) ==
  [m |-> sweepChunks(processed.m, processed.g, camChunkX, camChunkZ,
                     DOMAIN processed.m.chunks),
   g |-> processed.g,
   log |-> processed.log,
   offered |-> offered.pendingBuildSet]

updateOffered(g, camChunkX, camChunkZ, offered) ==
  updateSwept(camChunkX, camChunkZ, offered, processChunkBuildQueue(offered, g))

update(m, g, cameraObj) ==
  updateOffered(g, FloorDiv(cameraObj.x, CHUNK_SIZE), FloorDiv(cameraObj.z, CHUNK_SIZE),
                enqueueAround(m, FloorDiv(cameraObj.x, CHUNK_SIZE),
                              FloorDiv(cameraObj.z, CHUNK_SIZE), renderDistance(g),
                              -renderDistance(g), -renderDistance(g)))

(***************************************************************************)
(* Camera and map helpers of the handlers.                                 *)
(***************************************************************************)
PLAYER_HEIGHT == 1700
JUMP_SPEED == 11
GRAVITY == 30
DOUBLE_TAP_MS == 260
FLY_SPEED_MULTIPLIER == 3
\* baseSpeed with ControlLeft held, in world units per second.
SPRINT_SPEED == 34
\* tick's cap on dt, in ms.
MaxDt == 50
\* camera.position.y when the script has loaded and when a world starts, and
\* the range moveCamera clamps it to.
LoadHeight == 18000
StartHeight == 30000
CameraFloor == 3000
CameraCeiling == 200000
\* |y - groundLevel| below which a press of Space is a jump, in thousandths.
GroundedWithin == 50
\* lastSpaceDown starts at -Infinity: the time since then is beyond every
\* double tap, as is every time above DOUBLE_TAP_MS.
ClockCap == DOUBLE_TAP_MS + 1

\* The terrain getter of the running build.
terrainHeightOfBuild(g, x, z) ==
  IF g.build = "stream" THEN terrainHeight_s(g, x, z) ELSE terrainHeight(g, x, z)

\* Camera coordinates are whole world units, so Math.round leaves them as they are.
eyeLevelOver(t) == [v |-> t.v * 1000 + PLAYER_HEIGHT, g |-> t.g]
groundLevelAt(g, x, z) ==
  eyeLevelOver(terrainHeightOfBuild(g, clamp(x, 0, WORLD_SIZE - 1), clamp(z, 0, WORLD_SIZE - 1)))

\* The camera is clamped to [-20, WORLD_SIZE + 20] in the program; the model
\* scales the margin with the chunk size.
CamClamp == CamMargin * CHUNK_SIZE
\* What one frame can add to a camera coordinate: at most one chunk.
MoveSteps == {-CHUNK_SIZE, 0, CHUNK_SIZE}

\* moveCamera, x and z only: the step, the ground query of walk mode, the clamp.
\* The worlds build returns at once when no world is active or the map is open.
moveCamera(g, cam, active, mapOpen, fly, stepX, stepZ) ==
  IF g.build /= "stream" /\ (~active \/ mapOpen) THEN [camera |-> cam, g |-> g]
  ELSE [camera |-> [x |-> clamp(cam.x + stepX, -CamClamp, WORLD_SIZE + CamClamp),
                    z |-> clamp(cam.z + stepZ, -CamClamp, WORLD_SIZE + CamClamp)],
        g |-> IF fly THEN g ELSE groundLevelAt(g, cam.x + stepX, cam.z + stepZ).g]

\* sampleTerrainColorAtWorld, stage by stage: sand is
\* hasWaterInRadiusCached's answer,
shoreColour(sand) ==
  [v |-> IF sand.v THEN "#d1bf88" ELSE "#4f8f3e", g |-> sand.g]

\* b the biome read,
landColour(x, z, h, waterSurface, b) ==
  IF waterSurface >= h THEN [v |-> "#346fba", g |-> b.g]
  ELSE IF h > OCEAN_LEVEL + 9 THEN [v |-> "#6f7b85", g |-> b.g]
  ELSE IF b.v = BIOME_SNOW THEN [v |-> "#e6ecff", g |-> b.g]
  ELSE IF b.v = BIOME_DESERT THEN [v |-> "#dcbf72", g |-> b.g]
  ELSE IF h > OCEAN_LEVEL + 4 THEN [v |-> "#59984a", g |-> b.g]
  ELSE shoreColour(hasWaterInRadiusCached(b.g, x, z, SAND_WATER_RADIUS))

\* w the water height read, t the terrain height read.
colourUnderWater(x, z, h, w) == landColour(x, z, h, w.v, biomeAt(w.g, x, z))
colourOverTerrain(x, z, t) == colourUnderWater(x, z, t.v, waterHeight(t.g, x, z))

sampleTerrainColorAtWorld(g, x, z) == colourOverTerrain(x, z, terrainHeight(g, x, z))

\* The pixel loops of buildStaticMapLayer (pz outer, px inner); the layer is the
\* sequence of the colours painted.
RECURSIVE paintPixels(_, _, _, _, _)
paintPixel(size, pz, px, layer, colour) ==
  CASE colour.v /= "" -> paintPixels(colour.g, size, pz, px + 1, Append(layer, colour.v))

paintPixels(g, size, pz, px, layer) ==
  IF pz >= size THEN [v |-> layer, g |-> g]
  ELSE IF px >= size THEN paintPixels(g, size, pz + 1, 0, layer)
  ELSE paintPixel(size, pz, px, layer,
         sampleTerrainColorAtWorld(g, clamp((px * WORLD_SIZE) \div size, 0, WORLD_SIZE - 1),
                                      clamp((pz * WORLD_SIZE) \div size, 0, WORLD_SIZE - 1)))

buildStaticMapLayer(g, size) == paintPixels(g, size, 0, 0, <<>>)

\* rebuildMapStaticLayers: the mini map, then the full map.  Only what the
\* painting leaves in the caches is kept.
rebuildMapStaticLayers(g) ==
  buildStaticMapLayer(buildStaticMapLayer(g, MiniMapBound).g, FullMapBound).g

(***************************************************************************)
(* The state machine.                                                      *)
(***************************************************************************)
vars ==
  <<variant, WORLD_SIZE, CHUNK_SIZE, worldSeed, seedOffsetA, seedOffsetB, worldActive,
    terrainHeightCache, waterHeightCache, sandRadiusCache, biomeCache, treeCenterCache,
    flyMode, camera, chunks, root, geometries, pendingBuildQueue, pendingBuildSet,
    pc, call, run, cameraY, verticalVelocity, sinceSpaceDown, sincePress>>

\* The state that only the walk of the camera reads and writes.
walkVars == <<cameraY, verticalVelocity, sinceSpaceDown, sincePress>>

SetG(g) ==
  /\ worldSeed' = g.worldSeed
  /\ seedOffsetA' = g.seedOffsetA
  /\ seedOffsetB' = g.seedOffsetB
  /\ terrainHeightCache' = g.terrainHeightCache
  /\ waterHeightCache' = g.waterHeightCache
  /\ sandRadiusCache' = g.sandRadiusCache
  /\ biomeCache' = g.biomeCache
  /\ treeCenterCache' = g.treeCenterCache

SetM(m) ==
  /\ chunks' = m.chunks
  /\ root' = m.root
  /\ geometries' = m.geometries
  /\ pendingBuildQueue' = m.pendingBuildQueue
  /\ pendingBuildSet' = m.pendingBuildSet

\* call: op names the operation, fn/args/v a getter call and its result (hit:
\* the getter found its entry cached), camChunk/log/offered what an update saw
\* and did.  For startWorld and buildChunk v and offered tell what the manager
\* held when they were called.
NoCall ==
  [op |-> "init", fn |-> "", args |-> <<>>, v |-> 0, hit |-> FALSE,
   camChunk |-> <<0, 0>>, log |-> <<>>, offered |-> {}]

\* run: live while every update since the manager was last empty saw the
\* same camera chunk cam; n counts those updates, first is what the first of
\* them left pending before it built.
RunCap == WORLD_CHUNKS * WORLD_CHUNKS + 1
NoRun == [live |-> TRUE, n |-> 0, cam |-> <<0, 0>>, first |-> {}]
DeadRun == [live |-> FALSE, n |-> 0, cam |-> <<0, 0>>, first |-> {}]

camChunkOf(cam) == <<FloorDiv(cam.x, CHUNK_SIZE), FloorDiv(cam.z, CHUNK_SIZE)>>

CameraStart == [x |-> StartBound, z |-> StartBound]

InitWith(builds, worldSize, chunkSize) ==
  /\ variant \in builds
  /\ WORLD_SIZE = worldSize
  /\ CHUNK_SIZE = chunkSize
  /\ worldSeed = IF variant = "worlds" THEN 1 ELSE 0
  /\ seedOffsetA = 0
  /\ seedOffsetB = 0
  /\ worldActive = FALSE
  /\ terrainHeightCache = [i \in 0 .. (worldSize * worldSize - 1) |-> -1]
  /\ waterHeightCache = [i \in 0 .. (worldSize * worldSize - 1) |-> -1]
  /\ sandRadiusCache = [i \in 0 .. (worldSize * worldSize - 1) |-> -1]
  /\ biomeCache = [i \in 0 .. (worldSize * worldSize - 1) |-> -1]
  /\ treeCenterCache = EmptyTreeCache
  /\ flyMode = FALSE
  /\ camera = CameraStart
  /\ chunks = [k \in {} |-> 0]
  /\ root = EmptyBag
  /\ geometries = EmptyBag
  /\ pendingBuildQueue = <<>>
  /\ pendingBuildSet = {}
  /\ pc = "idle"
  /\ call = NoCall
  /\ run = NoRun
  /\ cameraY = LoadHeight
  /\ verticalVelocity = 0
  /\ sinceSpaceDown = ClockCap
  /\ sincePress = ClockCap

Init == InitWith({"worlds", "stream"}, WorldBound, ChunkBound)

\* What a handler that calls chunkManager.update(camera) leaves, u being what
\* the update returns.
UpdatedTo(op, cam, u) ==
  /\ SetG(u.g)
  /\ SetM(u.m)
  /\ call' = [NoCall EXCEPT !.op = op, !.camChunk = camChunkOf(cam),
                            !.log = u.log, !.offered = u.offered]
  /\ run' = IF run.live /\ (run.n = 0 \/ run.cam = camChunkOf(cam))
              THEN [live |-> TRUE, n |-> Min(run.n + 1, RunCap), cam |-> camChunkOf(cam),
                    first |-> IF run.n = 0 THEN u.offered ELSE run.first]
              ELSE DeadRun

Updated(op, g, cam) == UpdatedTo(op, cam, update(M, g, cam))

\* makeWorld() of the stream build, run once when the script loads.
MakeWorld ==
  /\ variant = "stream"
  /\ ~worldActive
  /\ pc = "idle"
  /\ worldActive' = TRUE
  /\ Updated("makeWorld", G, camera)
  /\ UNCHANGED <<variant, WORLD_SIZE, CHUNK_SIZE, flyMode, camera, pc>>

\* tick(now) runs in two steps, moveCamera(dt) and then chunkManager.update(camera);
\* pc keeps every other handler out between the two, as the single-threaded
\* program does.  The worlds build updates only while a world is active; the
\* stream build ticks once it is loaded.
MovedTo(moved) ==
  /\ camera' = moved.camera
  /\ SetG(moved.g)

TickMove(stepX, stepZ, mapOpen) ==
  /\ worldActive
  /\ pc = "idle"
  /\ MovedTo(moveCamera(G, camera, worldActive, mapOpen, flyMode, stepX, stepZ))
  /\ pc' = "moved"
  /\ call' = [NoCall EXCEPT !.op = "moveCamera"]
  /\ UNCHANGED <<variant, WORLD_SIZE, CHUNK_SIZE, worldActive, flyMode, chunks, root,
                 geometries, pendingBuildQueue, pendingBuildSet, run>>

TickUpdate ==
  /\ pc = "moved"
  /\ pc' = "idle"
  /\ Updated("tick", G, camera)
  /\ UNCHANGED <<variant, WORLD_SIZE, CHUNK_SIZE, worldActive, flyMode, camera>>

\* startWorld(worldData), from the home menu of the worlds build.
StartWorld(seed, startFlyMode) ==
  /\ variant = "worlds"
  /\ ~worldActive
  /\ pc = "idle"
  /\ worldActive' = TRUE
  /\ SetG(rebuildMapStaticLayers(resetWorldCaches(setWorldSeed(G, seed))))
  /\ SetM(clear(M))
  /\ camera' = CameraStart
  /\ flyMode' = startFlyMode
  /\ call' = [NoCall EXCEPT !.op = "startWorld", !.args = <<seed>>,
                            !.v = Cardinality(DOMAIN chunks), !.offered = pendingBuildSet]
  /\ run' = NoRun
  /\ UNCHANGED <<variant, WORLD_SIZE, CHUNK_SIZE, pc>>

\* The back button: enterHomeMenu().
BackHome ==
  /\ variant = "worlds"
  /\ worldActive
  /\ pc = "idle"
  /\ worldActive' = FALSE
  /\ call' = [NoCall EXCEPT !.op = "backHome"]
  /\ UNCHANGED <<variant, WORLD_SIZE, CHUNK_SIZE, worldSeed, seedOffsetA, seedOffsetB,
                 terrainHeightCache, waterHeightCache, sandRadiusCache, biomeCache,
                 treeCenterCache, flyMode, camera, chunks, root, geometries,
                 pendingBuildQueue, pendingBuildSet, pc, run>>

\* A click on the full map: teleportToWorldPoint(x, z), x and z in the world.
Teleport(x, z) ==
  /\ variant = "worlds"
  /\ worldActive
  /\ pc = "idle"
  /\ camera' = [x |-> x, z |-> z]
  /\ SetG(IF flyMode THEN G ELSE groundLevelAt(G, x, z).g)
  /\ call' = [NoCall EXCEPT !.op = "teleport"]
  /\ UNCHANGED <<variant, WORLD_SIZE, CHUNK_SIZE, worldActive, flyMode, chunks, root,
                 geometries, pendingBuildQueue, pendingBuildSet, pc, run>>

\* An initial keydown of Space: a double tap toggles fly mode (and asks for
\* the ground when it lands in walk mode), a single press in walk mode asks
\* for the ground to decide the jump.
KeydownSpace(isDoubleTap) ==
  /\ worldActive
  /\ pc = "idle"
  /\ flyMode' = IF isDoubleTap THEN ~flyMode ELSE flyMode
  /\ SetG(IF flyMode' THEN G ELSE groundLevelAt(G, camera.x, camera.z).g)
  /\ call' = [NoCall EXCEPT !.op = "keydown"]
  /\ UNCHANGED <<variant, WORLD_SIZE, CHUNK_SIZE, worldActive, camera, chunks, root,
                 geometries, pendingBuildQueue, pendingBuildSet, pc, run>>

TeleportCoords == {c * CHUNK_SIZE : c \in 0 .. (WORLD_CHUNKS - 1)}

\* The handlers of the two builds, for the seeds the saved worlds carry.  With
\* the map open moveCamera returns before it moves, so the step is left at zero.
Handlers(seeds) ==
  \/ MakeWorld /\ UNCHANGED walkVars
  \/ \E stepX \in MoveSteps, stepZ \in MoveSteps, mapOpen \in BOOLEAN :
       /\ (mapOpen => variant = "worlds" /\ stepX = 0 /\ stepZ = 0)
       /\ TickMove(stepX, stepZ, mapOpen)
       /\ UNCHANGED walkVars
  \/ TickUpdate /\ UNCHANGED walkVars
  \/ \E seed \in seeds, startFlyMode \in BOOLEAN :
       StartWorld(seed, startFlyMode) /\ UNCHANGED walkVars
  \/ BackHome /\ UNCHANGED walkVars
  \/ \E x \in TeleportCoords, z \in TeleportCoords : Teleport(x, z) /\ UNCHANGED walkVars
  \/ \E isDoubleTap \in BOOLEAN : KeydownSpace(isDoubleTap) /\ UNCHANGED walkVars

\* Spec: the two programs as they run, one saved world.
Next == Handlers({1})

Spec == Init /\ [][Next]_vars

(***************************************************************************)
(* SpecApi: the ChunkManager driven through its methods, update(camera)    *)
(* with the camera anywhere it can be and buildChunk(cx, cz) with any      *)
(* coordinate, in any order.                                               *)
(***************************************************************************)
\* The camera of update(camera): at the world's origin and as far out as it gets.
CamCoords == {0, (WORLD_CHUNKS + CamMargin) * CHUNK_SIZE}
ApiChunkCoords == 0 .. (WORLD_CHUNKS - 1)

UpdateCall(x, z) ==
  /\ camera' = [x |-> x, z |-> z]
  /\ Updated("update", G, camera')
  /\ UNCHANGED <<variant, WORLD_SIZE, CHUNK_SIZE, worldActive, flyMode, pc>>

\* buildChunk(cx, cz) called directly, b being what it returns.
BuiltTo(b) == SetG(b.g) /\ SetM(b.m)

BuildChunkCall(cx, cz) ==
  /\ BuiltTo(buildChunk(M, G, cx, cz))
  /\ call' = [NoCall EXCEPT !.op = "buildChunk", !.args = <<cx, cz>>,
                            !.v = IF key(cx, cz) \in DOMAIN chunks THEN 1 ELSE 0]
  /\ run' = DeadRun
  /\ UNCHANGED <<variant, WORLD_SIZE, CHUNK_SIZE, worldActive, flyMode, camera, pc>>

NextApi ==
  \/ \E x \in CamCoords, z \in {StartBound} : UpdateCall(x, z) /\ UNCHANGED walkVars
  \/ \E cx \in ApiChunkCoords, cz \in ApiChunkCoords : BuildChunkCall(cx, cz) /\ UNCHANGED walkVars

SpecApi == Init /\ [][NextApi]_vars

(***************************************************************************)
(* SpecCache: the terrain getters called directly, in any order and        *)
(* between world starts, and the height and water formulas applied to      *)
(* noise samples of their whole range.                                     *)
(***************************************************************************)
\* The columns queried: the first column that can carry a tree, and one
\* outside the world.
ProbeColumns == {<<TREE_SPACING, TREE_SPACING>>, <<0, WORLD_SIZE>>}

\* The chunk generated: that of the first probe column.
ProbeChunks == {<<TREE_SPACING \div CHUNK_SIZE, TREE_SPACING \div CHUNK_SIZE>>}

\* Whether a getter finds its entry for the column cached.
cachedAt(fn, g, x, z) ==
  LET i == worldColumnIndex(clamp(x, 0, WORLD_SIZE - 1), clamp(z, 0, WORLD_SIZE - 1))
  IN CASE fn = "terrainHeight" -> g.terrainHeightCache[i] >= 0
       [] fn = "waterHeight" -> g.waterHeightCache[i] >= 0
       [] fn = "biomeAt" -> g.biomeCache[i] >= 0
       [] fn = "hasWaterInRadiusCached" -> g.sandRadiusCache[i] >= 0
       [] fn = "isTreeCenter" -> <<x, z>> \in DOMAIN g.treeCenterCache
GetterNames == {"terrainHeight", "waterHeight", "biomeAt", "hasWaterInRadiusCached", "isTreeCenter"}

\* One call of a getter of the running build on the state g.
getter(fn, g, x, z) ==
  CASE fn = "terrainHeight" -> terrainHeightOfBuild(g, x, z)
    [] fn = "waterHeight" ->
         IF g.build = "stream" THEN waterHeight_s(g, x, z) ELSE waterHeight(g, x, z)
    [] fn = "biomeAt" -> biomeAt(g, x, z)
    [] fn = "hasWaterInRadiusCached" -> hasWaterInRadiusCached(g, x, z, SAND_WATER_RADIUS)
    [] fn = "isTreeCenter" ->
         IF g.build = "stream" THEN isTreeCenter_s(g, x, z) ELSE isTreeCenter(g, x, z)

\* What a getter call leaves: the state r.g and the record of the call with
\* its result r.v.
Returned(op, fn, args, hit, r) ==
  /\ SetG(r.g)
  /\ call' = [NoCall EXCEPT !.op = op, !.fn = fn, !.args = args, !.v = r.v, !.hit = hit]

Query(fn, x, z) ==
  /\ pc = "idle"
  /\ variant = "stream" => fn \notin {"biomeAt", "hasWaterInRadiusCached"}
  /\ Returned("query", fn, <<x, z>>, cachedAt(fn, G, x, z), getter(fn, G, x, z))
  /\ UNCHANGED <<variant, WORLD_SIZE, CHUNK_SIZE, worldActive, flyMode, camera, chunks, root,
                 geometries, pendingBuildQueue, pendingBuildSet, pc, run>>

\* buildChunkVoxelData(cx, cz) called directly: the chunk generated from the getters.
QueryChunk(cx, cz) ==
  /\ pc = "idle"
  /\ Returned("query", "buildChunkVoxelData", <<cx, cz>>, FALSE, buildChunkVoxelData(G, cx, cz))
  /\ UNCHANGED <<variant, WORLD_SIZE, CHUNK_SIZE, worldActive, flyMode, camera, chunks, root,
                 geometries, pendingBuildQueue, pendingBuildSet, pc, run>>

\* Noise values in thousandths, on both sides of every threshold of the formulas.
NoiseSamples == {0, 400, 999}
BlendSamples == {0, 999}
BasinSamples == {0, 150, 400}
RiverSamples == {0, 50, 400}
HeightSamples == 2 .. MAX_HEIGHT
\* neighborSum of the crater test, as 4h plus an offset
NeighborOffsets == {-8, 0, 4, 8}

\* The formulas read no state: a behaviour either applies one to a sample, and
\* ends there, or drives the getters.
Formula(fn, args, v) ==
  /\ call' = [NoCall EXCEPT !.op = "formula", !.fn = fn, !.args = args, !.v = v]
  /\ UNCHANGED <<variant, WORLD_SIZE, CHUNK_SIZE, worldSeed, seedOffsetA, seedOffsetB,
                 worldActive, terrainHeightCache, waterHeightCache, sandRadiusCache,
                 biomeCache, treeCenterCache, flyMode, camera, chunks, root, geometries,
                 pendingBuildQueue, pendingBuildSet, pc, run>>

ApplyTerrainHeight ==
  /\ call.op = "init"
  /\ variant = "worlds"
  /\ \E broadN \in NoiseSamples, rollingN \in NoiseSamples, detailN \in NoiseSamples,
        maskN \in NoiseSamples, ridgeN \in NoiseSamples :
       Formula("terrainHeightOf", <<broadN, rollingN, detailN, maskN, ridgeN>>,
               terrainHeightOf(broadN, rollingN, detailN, maskN, ridgeN))

ApplyTerrainHeight_s ==
  /\ call.op = "init"
  /\ variant = "stream"
  /\ \E broadN \in NoiseSamples, rollingN \in NoiseSamples, detailN \in NoiseSamples :
       Formula("terrainHeightOf", <<broadN, rollingN, detailN>>,
               terrainHeightOf_s(broadN, rollingN, detailN))

ApplyWaterHeight ==
  /\ call.op = "init"
  /\ variant = "worlds"
  /\ \E h \in HeightSamples, continental \in BlendSamples, deepOceanSignal \in BlendSamples,
        craterSignal \in BasinSamples, off \in NeighborOffsets :
       Formula("waterHeightOf", <<h, continental, deepOceanSignal, craterSignal, 4 * h + off>>,
               waterHeightOf(h, continental, deepOceanSignal, craterSignal, 4 * h + off))

ApplyWaterHeight_s ==
  /\ call.op = "init"
  /\ variant = "stream"
  /\ \E h \in HeightSamples, continental \in BlendSamples, deepOceanSignal \in BlendSamples,
        lakeSignal \in BasinSamples, riverField \in RiverSamples, riverFieldWarp \in BlendSamples :
       Formula("waterHeightOf",
               <<h, continental, deepOceanSignal, lakeSignal, riverField, riverFieldWarp>>,
               waterHeightOf_s(h, continental, deepOceanSignal, lakeSignal,
                               riverField, riverFieldWarp))

Getters ==
  \/ \E seed \in Seeds : StartWorld(seed, FALSE)
  \/ BackHome
  \/ \E fn \in GetterNames, c \in ProbeColumns : Query(fn, c[1], c[2])
  \/ \E c \in ProbeChunks : QueryChunk(c[1], c[2])

NextCache ==
  \/ call.op /= "formula" /\ Getters /\ UNCHANGED walkVars
  \/ ApplyTerrainHeight /\ UNCHANGED walkVars
  \/ ApplyTerrainHeight_s /\ UNCHANGED walkVars
  \/ ApplyWaterHeight /\ UNCHANGED walkVars
  \/ ApplyWaterHeight_s /\ UNCHANGED walkVars

InitCache == InitWith({"worlds", "stream"}, CacheWorldBound, CacheChunkBound)

SpecCache == InitCache /\ [][NextCache]_vars

(***************************************************************************)
(* SpecGen: the voxel resolver, the shoreline scan and the mesher called   *)
(* directly on a fresh world: before a world is started, or after the      *)
(* start of a world whose seed floods the origin (seed 1), grows a tree on *)
(* the first column that can carry one (TreeSeed, PeakTreeSeed), raises    *)
(* the origin to the snow line (ThresholdSeed) or leaves it dry at the     *)
(* lowest terrain height (DryFloorSeed).  A behaviour                      *)
(* resolves voxels of one column in any order, or scans shorelines, or     *)
(* meshes one material of one chunk.                                       *)
(***************************************************************************)
GenSeeds == {1, TreeSeed, ThresholdSeed, PeakTreeSeed, DryFloorSeed}
\* The voxels resolved: the column at the world's origin, the first column
\* that can carry a tree and its neighbour under the canopy, and two
\* columns outside the world; below the floor, the floor, the two heights
\* about the floor of the caves, the band the terrain, the water and the
\* trees lie in, the ceiling and above it.
ProbeVoxelColumns ==
  {<<0, 0>>, <<TREE_SPACING, TREE_SPACING>>, <<TREE_SPACING - 1, TREE_SPACING>>,
   <<0, WORLD_SIZE>>, <<-1, 0>>}
ProbeHeights ==
  {-1, 0, CAVE_MIN_Y, CAVE_MIN_Y + 1} \cup ((OCEAN_LEVEL - 2) .. (OCEAN_LEVEL + 9))
    \cup {MAX_HEIGHT, MAX_HEIGHT + 1}
\* The columns and radii of the shoreline scan.
RadiusColumns == {<<0, TREE_SPACING>>}
Radii == {0, SAND_WATER_RADIUS}
\* The chunks meshed: the corner chunk and its neighbour.
MeshChunks == {<<0, 0>>, <<1, 0>>}

\* getVoxelTypeAt(wx, y, wz) of the running build.
VoxelCall(wx, y, wz) ==
  /\ \/ call.op \in {"init", "startWorld"}
     \/ call.op = "voxel" /\ call.args[1] = wx /\ call.args[3] = wz
  /\ Returned("voxel", "getVoxelTypeAt", <<wx, y, wz>>, FALSE, resolveVoxel(G, wx, y, wz))
  /\ UNCHANGED <<variant, WORLD_SIZE, CHUNK_SIZE, worldActive, flyMode, camera, chunks, root,
                 geometries, pendingBuildQueue, pendingBuildSet, pc, run>>

\* hasWaterInRadiusCached(x, z, radius), which only the worlds build has.
\* hit tells whether the column's entry was stored before the call.
RadiusCall(x, z, radius) ==
  /\ variant = "worlds"
  /\ call.op \in {"init", "startWorld", "radius"}
  /\ Returned("radius", "hasWaterInRadiusCached", <<x, z, radius>>,
              cachedAt("hasWaterInRadiusCached", G, x, z),
              hasWaterInRadiusCached(G, x, z, radius))
  /\ UNCHANGED <<variant, WORLD_SIZE, CHUNK_SIZE, worldActive, flyMode, camera, chunks, root,
                 geometries, pendingBuildQueue, pendingBuildSet, pc, run>>

\* What buildChunk does for one material: buildChunkVoxelData(cx, cz) and
\* buildMaterialGreedyGeometry on its buffer.  v keeps the quads pushed and
\* the arrays pushQuad filled.
meshedQuads(geometry) ==
  [v |-> [quads |-> geometry.v, arrays |-> geometryArrays(geometry.v)], g |-> geometry.g]

meshMaterial(cx, cz, materialType, voxels) ==
  meshedQuads(buildMaterialGreedyGeometry(voxels.g, voxels.v, materialType,
                                          cx * CHUNK_SIZE, cz * CHUNK_SIZE))

MeshCall(cx, cz, materialType) ==
  /\ call.op \in {"init", "startWorld"}
  /\ Returned("mesh", "buildMaterialGreedyGeometry", <<cx, cz, materialType>>, FALSE,
              meshMaterial(cx, cz, materialType, buildChunkVoxelData(G, cx, cz)))
  /\ UNCHANGED <<variant, WORLD_SIZE, CHUNK_SIZE, worldActive, flyMode, camera, chunks, root,
                 geometries, pendingBuildQueue, pendingBuildSet, pc, run>>

NextGen ==
  \/ \E seed \in GenSeeds : call.op = "init" /\ StartWorld(seed, FALSE) /\ UNCHANGED walkVars
  \/ \E c \in ProbeVoxelColumns, y \in ProbeHeights : VoxelCall(c[1], y, c[2]) /\ UNCHANGED walkVars
  \/ \E c \in RadiusColumns, radius \in Radii : RadiusCall(c[1], c[2], radius) /\ UNCHANGED walkVars
  \/ \E c \in MeshChunks, i \in 1 .. Len(meshTypes(G)) : MeshCall(c[1], c[2], meshTypes(G)[i]) /\ UNCHANGED walkVars

SpecGen == InitCache /\ [][NextGen]_vars

(***************************************************************************)
(* SpecTrees: isTreeCenter and treeBlockAt of the worlds build called      *)
(* directly, on a world with four columns that can carry a tree.  A        *)
(* behaviour asks isTreeCenter for columns in any order, or resolves the   *)
(* tree blocks of one column in any order, or applies the slope test of    *)
(* isTreeCenter to sampled neighbour heights.                              *)
(***************************************************************************)
TreeSeeds == {GroveSeed, DesertSeed, LowSeed}
\* The columns asked: the four lattice columns inside the world, a column
\* off the lattice, a lattice column on the world's edge and one outside.
TreeCenterProbes ==
  {<<TREE_SPACING, TREE_SPACING>>, <<2 * TREE_SPACING, TREE_SPACING>>,
   <<TREE_SPACING, 2 * TREE_SPACING>>, <<2 * TREE_SPACING, 2 * TREE_SPACING>>,
   <<TREE_SPACING - 1, TREE_SPACING>>, <<0, TREE_SPACING>>, <<TREE_SPACING, 3 * TREE_SPACING>>}
\* The columns resolved: those from two before the first lattice column to
\* the second lattice column along z, and two diagonal neighbours.
TreeBlockColumns ==
  {<<TREE_SPACING, z>> : z \in (TREE_SPACING - 2) .. (2 * TREE_SPACING)}
    \cup {<<TREE_SPACING + 1, TREE_SPACING + 1>>, <<TREE_SPACING - 1, TREE_SPACING - 1>>}
\* The heights resolved: the band the trees of GroveSeed stand in.
TreeBlockHeights == (OCEAN_LEVEL + 4) .. (OCEAN_LEVEL + 10)
\* The heights the slope test is applied to.
SlopeSamples == {OCEAN_LEVEL + 2, OCEAN_LEVEL + 4, OCEAN_LEVEL + 5}

\* isTreeCenter(wx, wz).  hit tells whether the column's entry was stored
\* before the call.
TreeCenterCall(wx, wz) ==
  /\ call.op \in {"init", "startWorld", "treeCenter"}
  /\ Returned("treeCenter", "isTreeCenter", <<wx, wz>>, cachedAt("isTreeCenter", G, wx, wz),
              isTreeCenter(G, wx, wz))
  /\ UNCHANGED <<variant, WORLD_SIZE, CHUNK_SIZE, worldActive, flyMode, camera, chunks, root,
                 geometries, pendingBuildQueue, pendingBuildSet, pc, run>>

\* treeBlockAt(wx, y, wz).
TreeBlockCall(wx, y, wz) ==
  /\ \/ call.op \in {"init", "startWorld"}
     \/ call.op = "treeBlock" /\ call.args[1] = wx /\ call.args[3] = wz
  /\ Returned("treeBlock", "treeBlockAt", <<wx, y, wz>>, FALSE, treeBlockAt(G, wx, y, wz))
  /\ UNCHANGED <<variant, WORLD_SIZE, CHUNK_SIZE, worldActive, flyMode, camera, chunks, root,
                 geometries, pendingBuildQueue, pendingBuildSet, pc, run>>

\* The slope test and the density draw of isTreeCenter for the first lattice
\* column of a Plains world, on a sampled height of the column and sampled
\* heights of its four neighbours.
ApplyTreeSlope ==
  /\ call.op \in {"init", "startWorld"}
  /\ \E centerHeight \in SlopeSamples, north \in SlopeSamples, south \in SlopeSamples,
        east \in SlopeSamples, west \in SlopeSamples :
       Formula("treeCenterOnSlope", <<centerHeight, north, south, east, west>>,
               treeCenterOnSlope(G, TREE_SPACING, TREE_SPACING, centerHeight, BIOME_PLAINS,
                                 [v |-> <<north, south, east, west>>, g |-> G]).v)

NextTrees ==
  \/ \E seed \in TreeSeeds : call.op = "init" /\ StartWorld(seed, FALSE) /\ UNCHANGED walkVars
  \/ \E c \in TreeCenterProbes : TreeCenterCall(c[1], c[2]) /\ UNCHANGED walkVars
  \/ \E c \in TreeBlockColumns, y \in TreeBlockHeights : TreeBlockCall(c[1], y, c[2]) /\ UNCHANGED walkVars
  \/ ApplyTreeSlope /\ UNCHANGED walkVars

InitTrees == InitWith({"worlds"}, TreeWorldBound, CacheChunkBound)

SpecTrees == InitTrees /\ [][NextTrees]_vars

(***************************************************************************)
(* Properties of the chunk manager.                                        *)
(***************************************************************************)
UpdateOps == {"makeWorld", "tick", "update"}
Chebyshev(k, c) == Max(Abs(k[1] - c[1]), Abs(k[2] - c[2]))

\* C1: a single update adds at most MAX_CHUNK_BUILDS_PER_FRAME keys to the
\* built-chunk map, whatever the queue holds and wherever the viewer is.
C1_BuildsPerFrame ==
  [][call'.op \in UpdateOps =>
       Cardinality((DOMAIN chunks') \ (DOMAIN chunks)) <= MAX_CHUNK_BUILDS_PER_FRAME]_vars

\* An update that built its full share and left chunks pending.
C1_Witness ==
  /\ call.op \in UpdateOps
  /\ Len(call.log) = MAX_CHUNK_BUILDS_PER_FRAME
  /\ Len(pendingBuildQueue) > MAX_CHUNK_BUILDS_PER_FRAME

\* C2: every chunk an update builds is, among the chunks pending when it is
\* taken, one of the nearest (Chebyshev) to the viewer's chunk of that update.
C2_NearestFirst ==
  call.op \in UpdateOps =>
    \A i \in DOMAIN call.log :
      \A k \in call.log[i].pending :
        Chebyshev(call.log[i].key, call.camChunk) <= Chebyshev(k, call.camChunk)

\* C3: from an empty manager and with the viewer staying in one chunk, the
\* first update makes candidates of exactly the in-world coordinates within
\* the render distance of that chunk, and they are all built and the queue
\* is empty after ceil(count / MAX_CHUNK_BUILDS_PER_FRAME) updates, no sooner.
InRange(c, d) ==
  {k \in (0 .. (WORLD_CHUNKS - 1)) \X (0 .. (WORLD_CHUNKS - 1)) : Chebyshev(k, c) <= d}
UpdatesNeeded(count) == CeilDiv(count, MAX_CHUNK_BUILDS_PER_FRAME)

C3_StationaryFill ==
  (run.live /\ run.n >= 1) =>
    /\ run.first = InRange(run.cam, renderDistance(G))
    /\ run.n >= UpdatesNeeded(Cardinality(run.first)) =>
         (run.first \subseteq DOMAIN chunks /\ pendingBuildQueue = <<>>)
    /\ run.n < UpdatesNeeded(Cardinality(run.first)) =>
         ~(run.first \subseteq DOMAIN chunks)

\* The last of several updates a stationary viewer needed.
C3_Witness ==
  /\ run.live
  /\ run.n >= 2
  /\ run.n = UpdatesNeeded(Cardinality(run.first))
  /\ call.op \in UpdateOps
  /\ run.first \subseteq DOMAIN chunks
  /\ pendingBuildQueue = <<>>

\* C4: buildChunk on a built key changes neither the chunk map nor the scene
\* root, and whatever update and buildChunk calls were made, no key has more
\* than one group attached to the scene root.
C4_BuildIdempotent ==
  /\ [](\A k \in DOMAIN root : root[k] <= 1)
  /\ [][(call'.op = "buildChunk" /\ key(call'.args[1], call'.args[2]) \in DOMAIN chunks)
          => (chunks' = chunks /\ root' = root)]_vars

\* buildChunk called on a key that was built, its one group still attached.
C4_Witness ==
  /\ call.op = "buildChunk"
  /\ call.v = 1
  /\ BagCount(root, key(call.args[1], call.args[2])) = 1

\* C5: every coordinate in the queue, in the pending set or built lies in
\* [0, WORLD_CHUNKS) x [0, WORLD_CHUNKS), the camera anywhere in its range.
InWorldChunks == (0 .. (WORLD_CHUNKS - 1)) \X (0 .. (WORLD_CHUNKS - 1))

C5_WorldEdge ==
  /\ camera.x \in (-CamClamp) .. (WORLD_SIZE + CamClamp)
  /\ camera.z \in (-CamClamp) .. (WORLD_SIZE + CamClamp)
  /\ \A i \in DOMAIN pendingBuildQueue :
       <<pendingBuildQueue[i].cx, pendingBuildQueue[i].cz>> \in InWorldChunks
  /\ pendingBuildSet \subseteq InWorldChunks
  /\ DOMAIN chunks \subseteq InWorldChunks
  /\ \A k \in DOMAIN chunks : <<chunks[k].cx, chunks[k].cz>> = k

\* An update with the viewer outside the world that enqueued and built.
C5_Witness ==
  /\ call.op \in UpdateOps
  /\ call.camChunk \notin InWorldChunks
  /\ call.offered /= {}
  /\ call.log /= <<>>

\* C6: startWorld leaves no built chunk, an empty queue and an empty pending
\* set, no group on the scene root and no geometry undisposed.
C6_StartWorldClears ==
  call.op = "startWorld" =>
    /\ DOMAIN chunks = {}
    /\ pendingBuildQueue = <<>>
    /\ pendingBuildSet = {}
    /\ root = EmptyBag
    /\ geometries = EmptyBag

\* startWorld called with chunks built and chunks pending.
C6_Witness ==
  /\ call.op = "startWorld"
  /\ call.v > 0
  /\ call.offered /= {}
  /\ DOMAIN chunks = {}

(***************************************************************************)
(* Properties of the terrain getters and their caches.                     *)
(***************************************************************************)
InBounds(x, z) == x >= 0 /\ z >= 0 /\ x < WORLD_SIZE /\ z < WORLD_SIZE

\* The generation state g with nothing cached.
Uncached(g) ==
  [g EXCEPT !.terrainHeightCache = [i \in Columns |-> -1],
            !.waterHeightCache = [i \in Columns |-> -1],
            !.sandRadiusCache = [i \in Columns |-> -1],
            !.biomeCache = [i \in Columns |-> -1],
            !.treeCenterCache = [k \in {} |-> FALSE]]

\* What the last query returns when nothing is cached, under the seed in force.
Recomputed ==
  IF call.fn = "buildChunkVoxelData"
    THEN buildChunkVoxelData(Uncached(G), call.args[1], call.args[2]).v
    ELSE getter(call.fn, Uncached(G), call.args[1], call.args[2]).v

\* C7: whatever worlds were started before, every getter, and every chunk
\* generated from them, returns the value computed from the seed in force.
C7_NoStaleSeed == call.op = "query" => call.v = Recomputed

\* A cached height served under seed 2 that differs from the height of seed 1.
C7_Witness ==
  /\ call.op = "query"
  /\ call.fn = "terrainHeight"
  /\ call.hit
  /\ worldSeed = 2
  /\ call.v /= terrainHeight(Uncached(setWorldSeed(G, 1)), call.args[1], call.args[2]).v

\* C8: between two resets an entry of a cache that holds a value keeps it
\* (so a write only goes to an entry holding the sentinel), and whatever a
\* getter leaves in its column's entry differs from the sentinel.
KeepsStored(cache, next) == \A i \in DOMAIN cache : cache[i] /= -1 => next[i] = cache[i]

C8_WriteOnce ==
  /\ [][call'.op /= "startWorld" =>
          /\ KeepsStored(terrainHeightCache, terrainHeightCache')
          /\ KeepsStored(waterHeightCache, waterHeightCache')
          /\ KeepsStored(sandRadiusCache, sandRadiusCache')
          /\ KeepsStored(biomeCache, biomeCache')
          /\ \A k \in DOMAIN treeCenterCache :
               k \in DOMAIN treeCenterCache' /\ treeCenterCache'[k] = treeCenterCache[k]]_vars
  /\ []((call.op = "query" /\ call.fn \in GetterNames
            /\ (call.fn = "isTreeCenter" => call.args = <<TREE_SPACING, TREE_SPACING>>))
          => cachedAt(call.fn, G, call.args[1], call.args[2]))

\* A water query that computed 'no water' and left it stored.
C8_Witness ==
  /\ call.op = "query"
  /\ call.fn = "waterHeight"
  /\ ~call.hit
  /\ call.v = -1
  /\ InBounds(call.args[1], call.args[2])
  /\ waterHeightCache[worldColumnIndex(call.args[1], call.args[2])] = 0

\* C9: terrainHeight of an in-bounds column is the same integer when it is
\* computed, when it is served from the cache and after any other queries,
\* and it lies in [2, MAX_HEIGHT], as the height formula does on every sample.
C9_TerrainHeightStable ==
  /\ (call.op = "query" /\ call.fn = "terrainHeight" /\ InBounds(call.args[1], call.args[2])) =>
       /\ call.v \in 2 .. MAX_HEIGHT
       /\ call.v = terrainHeightOfBuild(G, call.args[1], call.args[2]).v
       /\ call.v = terrainHeightOfBuild(Uncached(G), call.args[1], call.args[2]).v
  /\ (call.op = "formula" /\ call.fn = "terrainHeightOf") => call.v \in 2 .. MAX_HEIGHT

\* A height of an in-bounds column served from the cache.
C9_Witness ==
  /\ call.op = "query"
  /\ call.fn = "terrainHeight"
  /\ InBounds(call.args[1], call.args[2])
  /\ call.hit
  /\ call.v \in 2 .. MAX_HEIGHT

\* C10: a water height other than -1 is at least the terrain height of its
\* column, on the computing call, on cached calls, and for the water formula
\* on every sample of its ocean, crater, river and lake signals.
C10_WaterAboveTerrain ==
  /\ (call.op = "query" /\ call.fn = "waterHeight" /\ call.v /= -1) =>
       call.v >= terrainHeightOfBuild(G, call.args[1], call.args[2]).v
  /\ (call.op = "formula" /\ call.fn = "waterHeightOf" /\ call.v /= -1) =>
       call.v >= call.args[1]

\* A cached water query that reports water.
C10_Witness ==
  /\ call.op = "query"
  /\ call.fn = "waterHeight"
  /\ call.hit
  /\ call.v /= -1

(***************************************************************************)
(* Properties of the voxel resolver.                                       *)
(***************************************************************************)
OutOfRange(wx, y, wz) == ~InBounds(wx, wz) \/ y < 0 \/ y > MAX_HEIGHT
Caches == <<terrainHeightCache, waterHeightCache, sandRadiusCache, biomeCache, treeCenterCache>>

\* C11: getVoxelTypeAt returns air for every coordinate with y < 0,
\* y > MAX_HEIGHT, or x or z outside [0, WORLD_SIZE), and leaves every cache
\* as it was; on cold caches too, where any getter it called would have
\* stored an entry.
C11_AirOutside ==
  /\ [][(call'.op = "voxel" /\ OutOfRange(call'.args[1], call'.args[2], call'.args[3]))
          => (call'.v = BLOCK_AIR /\ UNCHANGED Caches)]_vars
  /\ [](\A c \in ProbeVoxelColumns, y \in ProbeHeights :
          OutOfRange(c[1], y, c[2]) =>
            resolveVoxel(Uncached(G), c[1], y, c[2]) = [v |-> BLOCK_AIR, g |-> Uncached(G)])

\* A voxel above the ceiling of an in-world column whose height is cached.
C11_Witness ==
  /\ call.op = "voxel"
  /\ call.args[2] > MAX_HEIGHT
  /\ InBounds(call.args[1], call.args[3])
  /\ terrainHeightCache[worldColumnIndex(call.args[1], call.args[3])] >= 0
  /\ call.v = BLOCK_AIR

\* C12: a query for a column outside the world returns a sentinel and not
\* the value of an in-world column: no height in [0, MAX_HEIGHT], no biome,
\* no water in range.
Sentinel(fn, v) ==
  CASE fn = "terrainHeight" -> v \notin 0 .. MAX_HEIGHT
    [] fn = "waterHeight" -> v \notin 0 .. MAX_HEIGHT
    [] fn = "biomeAt" -> v \notin {BIOME_PLAINS, BIOME_DESERT, BIOME_SNOW}
    [] fn = "hasWaterInRadiusCached" -> v = FALSE
    [] OTHER -> TRUE

ColumnQueries == {"terrainHeight", "waterHeight", "biomeAt", "hasWaterInRadiusCached"}

C12_OutOfWorldSentinel ==
  (call.op = "query" /\ call.fn \in ColumnQueries /\ ~InBounds(call.args[1], call.args[2]))
    => Sentinel(call.fn, call.v)

\* C12 as amended: a column query for a column outside the world answers
\* for the nearest column inside it, x and z clamped to [0, WORLD_SIZE - 1]
\* (only getVoxelTypeAt answers air, C11).
C12_OutOfWorldClamped ==
  (call.op = "query" /\ call.fn \in ColumnQueries /\ ~InBounds(call.args[1], call.args[2]))
    => call.v = getter(call.fn, Uncached(G), clamp(call.args[1], 0, WORLD_SIZE - 1),
                       clamp(call.args[2], 0, WORLD_SIZE - 1)).v

\* A terrain height returned for a column outside the world.
C12_Witness ==
  /\ call.op = "query"
  /\ call.fn = "terrainHeight"
  /\ ~InBounds(call.args[1], call.args[2])
  /\ call.v \in 2 .. MAX_HEIGHT

(***************************************************************************)
(* Properties of the mesher, on the geometry of the last mesh call: the    *)
(* chunk call.args[1], call.args[2] and the material call.args[3].         *)
(***************************************************************************)
\* The block the world holds at the chunk-local position (x, y, z) of the
\* meshed chunk, inside the chunk or beyond its border.
TrueType(x, y, z) ==
  resolveVoxel(G, call.args[1] * CHUNK_SIZE + x, y, call.args[2] * CHUNK_SIZE + z).v

NeighbourType(x, y, z, f) ==
  TrueType(x + faces[f].neighbor[1], y + faces[f].neighbor[2], z + faces[f].neighbor[3])

WaterNear(x, y, z) == \E f \in DOMAIN faces : NeighbourType(x, y, z, f) = BLOCK_WATER

QuadSet == {call.v.quads[i] : i \in DOMAIN call.v.quads}

HasQuad(x, y, z, f) == [x |-> x, y |-> y, z |-> z, face |-> f] \in QuadSet

\* The voxels of the meshed chunk that are of the meshed material.
MeshedVoxels ==
  {p \in (0 .. (CHUNK_SIZE - 1)) \X (0 .. MAX_HEIGHT) \X (0 .. (CHUNK_SIZE - 1)) :
     TrueType(p[1], p[2], p[3]) = call.args[3]}

\* C13: a voxel of the meshed material with no water neighbour gets the quad
\* of a face exactly when the block the world holds on that side is air,
\* also when that block lies in the next chunk.
C13_FacesAtAir ==
  call.op = "mesh" =>
    \A p \in MeshedVoxels :
      ~WaterNear(p[1], p[2], p[3]) =>
        \A f \in DOMAIN faces :
          HasQuad(p[1], p[2], p[3], f) <=> (NeighbourType(p[1], p[2], p[3], f) = BLOCK_AIR)

\* C18: every voxel of the meshed material with a water neighbour gets all
\* six quads, whatever the material.
C18_WaterAdjacentAllFaces ==
  call.op = "mesh" =>
    \A p \in MeshedVoxels :
      WaterNear(p[1], p[2], p[3]) => \A f \in DOMAIN faces : HasQuad(p[1], p[2], p[3], f)

\* C18 as amended: in the build with the water rule every voxel of a
\* material other than water with a water neighbour gets all six quads; a
\* water voxel gets the quad of a face exactly when the block on that side
\* is air.
C18_SolidAtWaterAllFaces ==
  (call.op = "mesh" /\ variant = "worlds") =>
    \A p \in MeshedVoxels :
      IF call.args[3] = BLOCK_WATER
        THEN \A f \in DOMAIN faces :
               HasQuad(p[1], p[2], p[3], f) <=> (NeighbourType(p[1], p[2], p[3], f) = BLOCK_AIR)
        ELSE WaterNear(p[1], p[2], p[3]) => \A f \in DOMAIN faces : HasQuad(p[1], p[2], p[3], f)

\* A voxel under water whose face towards a solid block carries a quad.
C18_Witness ==
  /\ call.op = "mesh"
  /\ variant = "worlds"
  /\ call.args[3] /= BLOCK_WATER
  /\ \E p \in MeshedVoxels, f \in DOMAIN faces :
       /\ WaterNear(p[1], p[2], p[3])
       /\ NeighbourType(p[1], p[2], p[3], f) \notin {BLOCK_AIR, BLOCK_WATER}
       /\ HasQuad(p[1], p[2], p[3], f)

Sub(a, b) == <<a[1] - b[1], a[2] - b[2], a[3] - b[3]>>
Cross(a, b) ==
  <<a[2] * b[3] - a[3] * b[2], a[3] * b[1] - a[1] * b[3], a[1] * b[2] - a[2] * b[1]>>
Dot(a, b) == a[1] * b[1] + a[2] * b[2] + a[3] * b[3]
\* Vertex i (from 0) of the position array, and its normal.
VertexAt(arrays, i) ==
  <<arrays.positions[3 * i + 1], arrays.positions[3 * i + 2], arrays.positions[3 * i + 3]>>
NormalAt(arrays, i) ==
  <<arrays.normals[3 * i + 1], arrays.normals[3 * i + 2], arrays.normals[3 * i + 3]>>

\* C15: for every triangle (i0, i1, i2) of the index array the cross product
\* (v1 - v0) x (v2 - v0) points the way of the normal stored for its vertices.
C15_WindingAlongNormal ==
  call.op = "mesh" =>
    LET arrays == call.v.arrays
    IN \A t \in 0 .. ((Len(arrays.indices) \div 3) - 1) :
         LET i0 == arrays.indices[3 * t + 1]
             i1 == arrays.indices[3 * t + 2]
             i2 == arrays.indices[3 * t + 3]
         IN Dot(Cross(Sub(VertexAt(arrays, i1), VertexAt(arrays, i0)),
                      Sub(VertexAt(arrays, i2), VertexAt(arrays, i0))),
                NormalAt(arrays, i0)) > 0

(***************************************************************************)
(* Properties of the shoreline scan and of the voxels above the terrain.   *)
(***************************************************************************)
\* Whether some in-world column within Manhattan distance radius of (x, z)
\* has water, computed with nothing cached.
WaterWithin(x, z, radius) ==
  \E nx \in 0 .. (WORLD_SIZE - 1), nz \in 0 .. (WORLD_SIZE - 1) :
    /\ Abs(nx - x) + Abs(nz - z) <= radius
    /\ hasWaterAt(Uncached(G), nx, nz).v

C14_MeshesHaveFaces ==
  \A k \in DOMAIN chunks :
    LET meshes == chunks[k].meshes
    IN /\ \A i \in DOMAIN meshes :
            /\ meshes[i].quads > 0
            /\ meshes[i].type /= BLOCK_AIR
            /\ \E j \in DOMAIN meshTypes(G) : meshTypes(G)[j] = meshes[i].type
            /\ \A j \in DOMAIN meshes : meshes[j].type = meshes[i].type => j = i
       /\ BagCount(geometries, k) = Len(meshes)

\* A built chunk with meshes for some materials of the list and not for all.
C14_Witness ==
  \E k \in DOMAIN chunks :
    /\ Len(chunks[k].meshes) >= 1
    /\ Len(chunks[k].meshes) < Len(meshTypes(G))

QueueKeys == {pendingBuildQueue[i].key : i \in DOMAIN pendingBuildQueue}
BuiltBy(log) == {log[i].key : i \in DOMAIN log}

\* C16: the pending set holds exactly the keys of the queue, each once, and
\* none of them is built; a key that becomes built was pending before the
\* operation or after its enqueue phase and is logged with itself in the
\* queue when taken; a key leaves the queue only by being built, except
\* when startWorld clears the manager.
C16_QueueDiscipline ==
  /\ [](/\ pendingBuildSet = QueueKeys
        /\ Cardinality(QueueKeys) = Len(pendingBuildQueue)
        /\ QueueKeys \cap DOMAIN chunks = {})
  /\ [][/\ \A k \in (DOMAIN chunks') \ (DOMAIN chunks) :
             /\ k \in pendingBuildSet \cup call'.offered
             /\ \E i \in DOMAIN call'.log : call'.log[i].key = k /\ k \in call'.log[i].pending
         /\ BuiltBy(call'.log) \subseteq pendingBuildSet \cup call'.offered
         /\ call'.op /= "startWorld" =>
              (pendingBuildSet \ pendingBuildSet') \subseteq BuiltBy(call'.log)]_vars

\* An update that built a second chunk from the queue while others wait in it.
C16_Witness ==
  /\ call.op \in UpdateOps
  /\ \E i \in DOMAIN call.log : call.log[i].key \in DOMAIN chunks
  /\ pendingBuildQueue /= <<>>
  /\ Cardinality(DOMAIN chunks) >= 2

\* C17: after every update of the eviction build each built chunk lies
\* within RENDER_DISTANCE + CHUNK_UNLOAD_PADDING of the viewer's chunk, and
\* the scene root and the live geometries are those of the built chunks:
\* a chunk farther away, also one built by this update, is off the map, off
\* the root and disposed.
C17_Eviction ==
  variant = "stream" =>
    /\ call.op \in UpdateOps =>
         \A k \in DOMAIN chunks :
           Chebyshev(k, call.camChunk) <= RENDER_DISTANCE_s + CHUNK_UNLOAD_PADDING
    /\ DOMAIN root = DOMAIN chunks
    /\ \A k \in DOMAIN chunks :
         /\ BagCount(root, k) = 1
         /\ BagCount(geometries, k) = Len(chunks[k].meshes)
    /\ DOMAIN geometries \subseteq DOMAIN chunks

\* An update that built a chunk beyond the unload distance and removed it.
C17_Witness ==
  /\ variant = "stream"
  /\ call.op \in UpdateOps
  /\ \E i \in DOMAIN call.log :
       /\ call.log[i].key \notin DOMAIN chunks
       /\ Chebyshev(call.log[i].key, call.camChunk) > RENDER_DISTANCE_s + CHUNK_UNLOAD_PADDING

(***************************************************************************)
(* Properties of the voxels at and below the terrain.                      *)
(***************************************************************************)
\* Whether getVoxelTypeAt carves (wx, y, wz) of a column of height h as cave.
Carved(wx, y, wz, h) ==
  /\ y > CAVE_MIN_Y
  /\ y < h - 1
  /\ isCave(smoothNoise(Uncached(G), wx * CAVE_SCALE + y * 120 + 300000,
                        wz * CAVE_SCALE + y * 90 + 500000),
            smoothNoise(Uncached(G), wx * ((CAVE_SCALE * 18) \div 10) + y * 200 + 30000,
                        wz * ((CAVE_SCALE * 18) \div 10) + y * 160 + 90000))

\* The layer of a voxel at or below the terrain height h: the surface block,
\* snow when snowLine holds of h, two blocks of dirt, stone below.
Layer(wx, y, wz, h, snowLine) ==
  LET biome == biomeAt(Uncached(G), wx, wz).v
  IN IF y = h
       THEN IF biome = BIOME_SNOW \/ snowLine THEN BLOCK_SNOW
            ELSE IF biome = BIOME_DESERT \/ WaterWithin(wx, wz, SAND_WATER_RADIUS)
              THEN BLOCK_SAND
            ELSE BLOCK_GRASS
     ELSE IF y >= h - 2 THEN BLOCK_DIRT
     ELSE BLOCK_STONE

\* A voxel call of the worlds build on a voxel at or below the terrain that
\* is neither carved nor near bedrock.
LayerCall ==
  /\ variant = "worlds"
  /\ call.op = "voxel"
  /\ ~OutOfRange(call.args[1], call.args[2], call.args[3])
  /\ call.args[2] > 1
  /\ call.args[2] <= getter("terrainHeight", Uncached(G), call.args[1], call.args[3]).v
  /\ ~Carved(call.args[1], call.args[2], call.args[3],
             getter("terrainHeight", Uncached(G), call.args[1], call.args[3]).v)

\* C21 as stated: an in-bounds voxel at or below the terrain height h, not
\* carved and not near bedrock, is at y = h snow if the biome is Snow or h is
\* above MOUNTAIN_HEIGHT_THRESHOLD, else sand if the biome is Desert or water
\* lies within SAND_WATER_RADIUS, else grass; dirt for h - 2 <= y < h; stone
\* below.
C21_LayersAboveThreshold ==
  LayerCall =>
    LET h == getter("terrainHeight", Uncached(G), call.args[1], call.args[3]).v
    IN call.v = Layer(call.args[1], call.args[2], call.args[3], h,
                      h > MOUNTAIN_HEIGHT_THRESHOLD)

\* C21 amended: the same layers, the surface being snow if the biome is Snow
\* or h is at or above MOUNTAIN_HEIGHT_THRESHOLD.
C21_LayersFromThreshold ==
  LayerCall =>
    LET h == getter("terrainHeight", Uncached(G), call.args[1], call.args[3]).v
    IN call.v = Layer(call.args[1], call.args[2], call.args[3], h,
                      h >= MOUNTAIN_HEIGHT_THRESHOLD)

\* The surface of a Plains column of height MOUNTAIN_HEIGHT_THRESHOLD resolved.
C21_Witness ==
  /\ LayerCall
  /\ call.args[2] = MOUNTAIN_HEIGHT_THRESHOLD
  /\ getter("terrainHeight", Uncached(G), call.args[1], call.args[3]).v = MOUNTAIN_HEIGHT_THRESHOLD
  /\ biomeAt(Uncached(G), call.args[1], call.args[3]).v = BIOME_PLAINS
  /\ call.v = BLOCK_SNOW

(***************************************************************************)
(* Properties of the trees.                                                *)
(***************************************************************************)
\* The trunk height treeBlockAt derives for the tree center (tx, tz).
TrunkHeight(tx, tz) == 4 + (hash2(Uncached(G), tx * 1000 + 91700, tz * 1000 + 17300) * 2) \div 1000

\* A voxel call of the worlds build on the column of a tree center.
TrunkCall ==
  /\ variant = "worlds"
  /\ call.op = "voxel"
  /\ isTreeCenter(Uncached(G), call.args[1], call.args[3]).v

\* C23: on the column of a tree center with terrain height h and trunk height
\* t, getVoxelTypeAt answers wood for every y from h + 1 to h + t and leaf at
\* y = h + t + 1, whatever the terrain height of the center.
C23_CompleteTrunk ==
  TrunkCall =>
    LET h == getter("terrainHeight", Uncached(G), call.args[1], call.args[3]).v
        t == TrunkHeight(call.args[1], call.args[3])
        y == call.args[2]
    IN /\ t \in {4, 5}
       /\ (y >= h + 1 /\ y <= h + t) => call.v = BLOCK_WOOD
       /\ y = h + t + 1 => call.v = BLOCK_LEAF

(***************************************************************************)
(* Properties of the caves.                                                *)
(***************************************************************************)
\* Whether the cave noise at (wx, y, wz) is above CAVE_THRESHOLD, wherever
\* the voxel lies.
CaveNoise(wx, y, wz) ==
  isCave(smoothNoise(Uncached(G), wx * CAVE_SCALE + y * 120 + 300000,
                     wz * CAVE_SCALE + y * 90 + 500000),
         smoothNoise(Uncached(G), wx * ((CAVE_SCALE * 18) \div 10) + y * 200 + 30000,
                     wz * ((CAVE_SCALE * 18) \div 10) + y * 160 + 90000))

\* A voxel call of the worlds build inside the world.
InWorldCall ==
  /\ variant = "worlds"
  /\ call.op = "voxel"
  /\ ~OutOfRange(call.args[1], call.args[2], call.args[3])

\* C29 as stated: in a column of terrain height h the voxels at y = h, at
\* y = h - 1 and at every y <= CAVE_MIN_Y are not air, whatever the cave noise.
C29_SurfaceAndFloorSolid ==
  InWorldCall =>
    LET h == getter("terrainHeight", Uncached(G), call.args[1], call.args[3]).v
        y == call.args[2]
    IN (y = h \/ y = h - 1 \/ y <= CAVE_MIN_Y) => call.v /= BLOCK_AIR

\* C29 amended: at y = h, at y = h - 1 and at every y <= CAVE_MIN_Y at or
\* below h the voxel is not air, whatever the cave noise.
C29_TerrainSolid ==
  InWorldCall =>
    LET h == getter("terrainHeight", Uncached(G), call.args[1], call.args[3]).v
        y == call.args[2]
    IN (y <= h /\ (y >= h - 1 \/ y <= CAVE_MIN_Y)) => call.v /= BLOCK_AIR

\* A voxel one below the surface, or at the floor of the caves, resolved
\* where the cave noise is above the threshold.
C29_Witness ==
  /\ InWorldCall
  /\ call.args[2] <= getter("terrainHeight", Uncached(G), call.args[1], call.args[3]).v
  /\ \/ call.args[2] >= getter("terrainHeight", Uncached(G), call.args[1], call.args[3]).v - 1
     \/ call.args[2] = CAVE_MIN_Y
  /\ CaveNoise(call.args[1], call.args[2], call.args[3])
  /\ call.v /= BLOCK_AIR

\* A carved voxel: air below the terrain.
C29_Carved ==
  /\ InWorldCall
  /\ call.args[2] < getter("terrainHeight", Uncached(G), call.args[1], call.args[3]).v
  /\ call.v = BLOCK_AIR

(***************************************************************************)
(* Properties of the tree centers.                                         *)
(***************************************************************************)
\* Whether a column lies within 3 columns of an edge of the world, or
\* outside the world.
NearEdge(wx, wz) ==
  \/ wx < 3
  \/ wz < 3
  \/ wx > WORLD_SIZE - 4
  \/ wz > WORLD_SIZE - 4

OffLattice(wx, wz) == wx % TREE_SPACING /= 0 \/ wz % TREE_SPACING /= 0

\* Whether the height c of a column differs by more than 2 from one of the
\* heights of its four neighbours.
SteepAmong(c, n, s, e, w) ==
  \E d \in {c - n, c - s, c - e, c - w} : d > 2 \/ d < -2

\* What forbids a tree on a column inside the edge margin and on the
\* lattice, computed with nothing cached.
Barren(wx, wz) ==
  LET h == terrainHeight(Uncached(G), wx, wz).v
  IN \/ hasWaterAt(Uncached(G), wx, wz).v
     \/ h <= OCEAN_LEVEL + 1
     \/ biomeAt(Uncached(G), wx, wz).v = BIOME_DESERT
     \/ SteepAmong(h, terrainHeight(Uncached(G), wx, wz - 1).v,
                   terrainHeight(Uncached(G), wx, wz + 1).v,
                   terrainHeight(Uncached(G), wx + 1, wz).v,
                   terrainHeight(Uncached(G), wx - 1, wz).v)

\* C22: isTreeCenter answers false for a column within 3 of a world edge,
\* off the TREE_SPACING lattice, holding water, at a height of at most
\* OCEAN_LEVEL + 1, in the Desert, or whose height differs by more than 2 from
\* one of its four neighbours' (also when the slope test is given such
\* heights); and each call answers what a computation with empty caches under
\* the current seed answers, so repeated calls agree until the caches are
\* reset.
C22_TreeCenter ==
  /\ call.op = "treeCenter" =>
       /\ (NearEdge(call.args[1], call.args[2]) \/ OffLattice(call.args[1], call.args[2])
             \/ Barren(call.args[1], call.args[2])) => call.v = FALSE
       /\ call.v = isTreeCenter(Uncached(G), call.args[1], call.args[2]).v
  /\ (call.op = "formula" /\ call.fn = "treeCenterOnSlope") =>
       (SteepAmong(call.args[1], call.args[2], call.args[3], call.args[4], call.args[5])
          => call.v = FALSE)

\* A repeated call on a column with a tree, answered from the cache.
C22_Witness ==
  /\ call.op = "treeCenter"
  /\ call.hit
  /\ call.v = TRUE

\* Calls answered false for each reason but the slope, and the slope test
\* answering false on a column whose density draw allows a tree.
C22_WitnessWater ==
  /\ call.op = "treeCenter" /\ ~NearEdge(call.args[1], call.args[2])
  /\ ~OffLattice(call.args[1], call.args[2])
  /\ hasWaterAt(Uncached(G), call.args[1], call.args[2]).v
  /\ terrainHeight(Uncached(G), call.args[1], call.args[2]).v > OCEAN_LEVEL + 1
C22_WitnessLow ==
  /\ call.op = "treeCenter" /\ ~NearEdge(call.args[1], call.args[2])
  /\ ~OffLattice(call.args[1], call.args[2])
  /\ terrainHeight(Uncached(G), call.args[1], call.args[2]).v <= OCEAN_LEVEL + 1
C22_WitnessDesert ==
  /\ call.op = "treeCenter" /\ ~NearEdge(call.args[1], call.args[2])
  /\ ~OffLattice(call.args[1], call.args[2])
  /\ ~hasWaterAt(Uncached(G), call.args[1], call.args[2]).v
  /\ terrainHeight(Uncached(G), call.args[1], call.args[2]).v > OCEAN_LEVEL + 1
  /\ biomeAt(Uncached(G), call.args[1], call.args[2]).v = BIOME_DESERT
C22_WitnessSteep ==
  /\ call.op = "formula" /\ call.fn = "treeCenterOnSlope"
  /\ worldSeed = GroveSeed
  /\ SteepAmong(call.args[1], call.args[2], call.args[3], call.args[4], call.args[5])
  /\ call.v = FALSE

(***************************************************************************)
(* Properties of the tree blocks.                                          *)
(***************************************************************************)
\* The lattice columns of the world.
LatticeCenters ==
  {c \in (0 .. (WORLD_SIZE - 1)) \X (0 .. (WORLD_SIZE - 1)) : ~OffLattice(c[1], c[2])}

\* The tree centers of the world, computed with nothing cached.
TreeCenters == {c \in LatticeCenters : isTreeCenter(Uncached(G), c[1], c[2]).v}

\* The block the tree center c claims at (wx, y, wz), BLOCK_AIR for none.
ClaimOf(c, wx, y, wz) ==
  treeClaim(Uncached(G), c[1], c[2], wx, y, wz, terrainHeight(Uncached(G), c[1], c[2]).v + 1)

Claimants(wx, y, wz) == {c \in TreeCenters : ClaimOf(c, wx, y, wz) /= BLOCK_AIR}

\* C24: at most one tree center of the world claims a voxel, and treeBlockAt
\* answers the block of that center, air when there is none: the answer does
\* not depend on the order of the scan.
C24_OneClaimant ==
  call.op = "treeBlock" =>
    /\ Cardinality(Claimants(call.args[1], call.args[2], call.args[3])) <= 1
    /\ Claimants(call.args[1], call.args[2], call.args[3]) = {} => call.v = BLOCK_AIR
    /\ \A c \in Claimants(call.args[1], call.args[2], call.args[3]) :
         call.v = ClaimOf(c, call.args[1], call.args[2], call.args[3])

\* A block resolved between two tree centers that the scan both visits.
C24_Witness ==
  /\ call.op = "treeBlock"
  /\ call.v /= BLOCK_AIR
  /\ \E c1 \in TreeCenters, c2 \in TreeCenters :
       /\ c1 /= c2
       /\ c1[1] = call.args[1] /\ c2[1] = call.args[1]
       /\ c1[2] < call.args[3] /\ call.args[3] < c2[2]
       /\ c2[2] - c1[2] = TREE_SPACING

\* The height of the lower leaf layer of the tree on c.
LeafBottom(c) == terrainHeight(Uncached(G), c[1], c[2]).v + TrunkHeight(c[1], c[2]) - 1

\* C30 as stated: an apple lies at the height of the lower leaf layer of a
\* tree center, at offsets dx <= TREE_CANOPY_RADIUS and
\* dz <= TREE_CANOPY_RADIUS from it.
C30_AppleInCanopy ==
  (call.op = "treeBlock" /\ call.v = BLOCK_APPLE) =>
    \E c \in TreeCenters :
      /\ Abs(call.args[1] - c[1]) <= TREE_CANOPY_RADIUS
      /\ Abs(call.args[3] - c[2]) <= TREE_CANOPY_RADIUS
      /\ call.args[2] = LeafBottom(c)

\* C30 amended: an apple lies at the height of the lower leaf layer of a tree
\* center, at offsets with dx + dz = TREE_CANOPY_RADIUS + 1 or
\* dx = dz = TREE_CANOPY_RADIUS from it.
C30_AppleOnRing ==
  (call.op = "treeBlock" /\ call.v = BLOCK_APPLE) =>
    \E c \in TreeCenters :
      /\ \/ Abs(call.args[1] - c[1]) + Abs(call.args[3] - c[2]) = TREE_CANOPY_RADIUS + 1
         \/ /\ Abs(call.args[1] - c[1]) = TREE_CANOPY_RADIUS
            /\ Abs(call.args[3] - c[2]) = TREE_CANOPY_RADIUS
      /\ call.args[2] = LeafBottom(c)

\* An apple two columns from the trunk, outside the canopy.
C30_Witness ==
  /\ call.op = "treeBlock"
  /\ call.v = BLOCK_APPLE
  /\ \E c \in TreeCenters :
       /\ call.args[1] = c[1]
       /\ Abs(call.args[3] - c[2]) = TREE_CANOPY_RADIUS + 1
       /\ call.args[2] = LeafBottom(c)

\* C28: every chunk an update of the eviction build builds lies within
\* RENDER_DISTANCE of the viewer's chunk of that update, so that the update
\* keeps every chunk it builds.
C28_BuiltInRange ==
  (variant = "stream" /\ call.op \in UpdateOps) =>
    \A i \in DOMAIN call.log :
      /\ Chebyshev(call.log[i].key, call.camChunk) <= RENDER_DISTANCE_s
      /\ call.log[i].key \in DOMAIN chunks

(***************************************************************************)
(* SpecFrames: a page that keeps drawing frames.  requestAnimationFrame    *)
(* calls tick again after every frame, so moveCamera and the update that   *)
(* follows it are taken again and again (weak fairness); the viewer moves  *)
(* by at most one chunk per frame and the world, once started, is not left.*)
(***************************************************************************)
FrameMove ==
  \E stepX \in MoveSteps, stepZ \in MoveSteps, mapOpen \in BOOLEAN :
    /\ (mapOpen => variant = "worlds" /\ stepX = 0 /\ stepZ = 0)
    /\ TickMove(stepX, stepZ, mapOpen)

NextFrames ==
  \/ MakeWorld /\ UNCHANGED walkVars
  \/ \E startFlyMode \in BOOLEAN : StartWorld(1, startFlyMode) /\ UNCHANGED walkVars
  \/ FrameMove /\ UNCHANGED walkVars
  \/ TickUpdate /\ UNCHANGED walkVars
  \/ \E isDoubleTap \in BOOLEAN : KeydownSpace(isDoubleTap) /\ UNCHANGED walkVars

\* The two steps of a frame as pc shows them: a step from "idle" to "moved" is
\* a moveCamera step of tick, a step from "moved" to "idle" its update.
MoveDue == worldActive /\ pc = "idle" /\ pc' = "moved"
UpdateDue == pc = "moved" /\ pc' = "idle"

SpecFrames == Init /\ [][NextFrames]_vars /\ WF_pc(MoveDue) /\ WF_pc(UpdateDue)

\* Every chunk key a world of the modelled size can have.
FrameKeys == (0 .. (WorldBound - 1)) \X (0 .. (WorldBound - 1))

\* The keys that entered the pending queue: those an update had pending after
\* its enqueue phase, and those still pending.
Entered ==
  pendingBuildSet \cup (IF call.op \in UpdateOps THEN call.offered ELSE {})

\* C27: while frames keep being drawn and the viewer moves by at most one
\* chunk per frame, every key that entered the pending queue is built by that
\* update or a later one.
C27_NoStarvation ==
  \A k \in FrameKeys : (k \in Entered) ~> (k \in BuiltBy(call.log))

\* A frame of the eviction build builds a key that an earlier update enqueued:
\* the viewer has left its range since, and other keys are still pending.
C27_Witness ==
  /\ variant = "stream"
  /\ call.op = "tick"
  /\ pendingBuildSet /= {}
  /\ \E i \in DOMAIN call.log :
       /\ Chebyshev(call.log[i].key, call.camChunk) > RENDER_DISTANCE_s
       /\ call.log[i].pending /= {call.log[i].key}

(***************************************************************************)
(* SpecWalk: the camera's walk.  moveCamera(dt), teleportToWorldPoint and  *)
(* the keydown handler with the camera height, the vertical velocity and   *)
(* the double-tap clock, between world starts and returns to the menu.     *)
(* Frames are at least MaxDt apart, so dt is at its cap; the camera moves  *)
(* by whole columns along x, and in fly mode it either moves level or      *)
(* sinks with ControlLeft held.  In walk mode Space is pressed while the   *)
(* camera has no vertical velocity.  Heights are in thousandths of a world *)
(* unit.                                                                   *)
(***************************************************************************)
\* The walk branch without its ground test: the camera keeps falling.
landOn_through(y, velocity, groundLevel) ==
  [y |-> y, verticalVelocity |-> velocity]

\* The walk branch of moveCamera after gravity has acted: the ground test.
landOn(y, velocity, groundLevel) ==
  IF y <= groundLevel THEN [y |-> groundLevel, verticalVelocity |-> 0]
  ELSE [y |-> y, verticalVelocity |-> velocity]

\* verticalVelocity -= GRAVITY * dt; camera.position.y += verticalVelocity * dt.
fallFor(y, velocity, dt, groundLevel) ==
  landOn(y + (velocity * dt) \div 1000, velocity, groundLevel)

\* The last clamp of moveCamera, on y.
clampedY(moved) ==
  [moved EXCEPT !.y = clamp(@, CameraFloor, CameraCeiling)]

\* moveCamera on camera.position.y and verticalVelocity: lift is moveInput.y,
\* groundLevel what groundLevelAt answers for the column moved to.
moveCameraY(y, velocity, fly, lift, dt, groundLevel) ==
  clampedY(IF fly
             THEN [y |-> y + lift * SPRINT_SPEED * FLY_SPEED_MULTIPLIER * dt,
                   verticalVelocity |-> 0]
             ELSE fallFor(y, velocity - GRAVITY * dt, dt, groundLevel))

WalkTo(moved) ==
  /\ cameraY' = moved.y
  /\ verticalVelocity' = moved.verticalVelocity

Lifts == {-1, 0}

\* moveCamera(dt) with dt at its cap.
MoveCameraCall(stepX, lift, mapOpen) ==
  /\ worldActive
  /\ pc = "idle"
  /\ MovedTo(moveCamera(G, camera, worldActive, mapOpen, flyMode, stepX, 0))
  /\ WalkTo(IF variant = "worlds" /\ mapOpen
              THEN [y |-> cameraY, verticalVelocity |-> verticalVelocity]
              ELSE moveCameraY(cameraY, verticalVelocity, flyMode, lift, MaxDt,
                               groundLevelAt(G, camera.x + stepX, camera.z).v))
  /\ call' = [NoCall EXCEPT !.op = "moveCamera"]
  /\ UNCHANGED <<variant, WORLD_SIZE, CHUNK_SIZE, worldActive, flyMode, chunks, root,
                 geometries, pendingBuildQueue, pendingBuildSet, pc, run,
                 sinceSpaceDown, sincePress>>

\* teleportToWorldPoint(x, z) with the height it leaves.
TeleportCall(x, z) ==
  /\ Teleport(x, z)
  /\ cameraY' = IF flyMode THEN cameraY ELSE groundLevelAt(G, x, z).v
  /\ verticalVelocity' = IF flyMode THEN verticalVelocity ELSE 0
  /\ UNCHANGED <<sinceSpaceDown, sincePress>>

\* startWorld with camera.position.set(12, 30, 12) and verticalVelocity = 0;
\* lastSpaceDown is not reset.
StartWorldCall(seed, startFlyMode) ==
  /\ StartWorld(seed, startFlyMode)
  /\ cameraY' = StartHeight
  /\ verticalVelocity' = 0
  /\ UNCHANGED <<sinceSpaceDown, sincePress>>

\* What an initial keydown of Space does to the height and the velocity:
\* a double tap into walk mode lifts the camera to the ground, a single press
\* on the ground in walk mode is a jump.
spaceDown(y, velocity, fly, isDoubleTap, groundLevel) ==
  IF isDoubleTap
    THEN [y |-> IF fly THEN Max(y, groundLevel) ELSE y, verticalVelocity |-> 0]
  ELSE IF ~fly /\ Abs(y - groundLevel) < GroundedWithin
    THEN [y |-> y, verticalVelocity |-> JUMP_SPEED * 1000]
  ELSE [y |-> y, verticalVelocity |-> velocity]

\* The handler without its test of event.repeat: a held key taps again.
reachesSpace_repeated(code, repeat, mapOpen) ==
  code = "Space" /\ ~mapOpen

\* Whether the keydown handler reaches its Space branch: the worlds build
\* returns while the map is open, both builds return on auto-repeat.
reachesSpace(code, repeat, mapOpen) ==
  code = "Space" /\ ~repeat /\ ~mapOpen

\* The keydown handler for the event (code, repeat).
KeydownCall(code, repeat, mapOpen) ==
  /\ worldActive
  /\ pc = "idle"
  /\ mapOpen => variant = "worlds"
  /\ IF reachesSpace(code, repeat, mapOpen)
       THEN /\ flyMode' = IF sinceSpaceDown <= DOUBLE_TAP_MS THEN ~flyMode ELSE flyMode
            /\ sinceSpaceDown' = 0
            /\ SetG(IF flyMode' THEN G ELSE groundLevelAt(G, camera.x, camera.z).g)
            /\ WalkTo(spaceDown(cameraY, verticalVelocity, flyMode,
                                sinceSpaceDown <= DOUBLE_TAP_MS,
                                groundLevelAt(G, camera.x, camera.z).v))
       ELSE UNCHANGED <<flyMode, sinceSpaceDown, cameraY, verticalVelocity, worldSeed,
                        seedOffsetA, seedOffsetB, terrainHeightCache, waterHeightCache,
                        sandRadiusCache, biomeCache, treeCenterCache>>
  /\ sincePress' = IF code = "Space" /\ ~repeat THEN 0 ELSE sincePress
  /\ call' = [NoCall EXCEPT !.op = "keydown", !.args = <<code, repeat, mapOpen>>,
                            !.v = sinceSpaceDown]
  /\ UNCHANGED <<variant, WORLD_SIZE, CHUNK_SIZE, worldActive, camera, chunks, root,
                 geometries, pendingBuildQueue, pendingBuildSet, pc, run>>

\* Time passes between two events.
Elapse(ms) ==
  /\ pc = "idle"
  /\ sinceSpaceDown' = Min(ClockCap, sinceSpaceDown + ms)
  /\ sincePress' = Min(ClockCap, sincePress + ms)
  /\ sinceSpaceDown' /= sinceSpaceDown \/ sincePress' /= sincePress
  /\ call' = [NoCall EXCEPT !.op = "elapse"]
  /\ UNCHANGED <<variant, WORLD_SIZE, CHUNK_SIZE, worldSeed, seedOffsetA, seedOffsetB,
                 worldActive, terrainHeightCache, waterHeightCache, sandRadiusCache,
                 biomeCache, treeCenterCache, flyMode, camera, chunks, root, geometries,
                 pendingBuildQueue, pendingBuildSet, pc, run, cameraY, verticalVelocity>>

KeyCodes == {"Space", "KeyW"}
\* Gaps between events: the longest one of a double tap, and a millisecond
\* more.
Gaps == {DOUBLE_TAP_MS, DOUBLE_TAP_MS + 1}

NextWalk ==
  \/ MakeWorld /\ UNCHANGED walkVars
  \/ \E startFlyMode \in BOOLEAN : StartWorldCall(1, startFlyMode)
  \/ BackHome /\ UNCHANGED walkVars
  \/ \E stepX \in MoveSteps, lift \in Lifts, mapOpen \in BOOLEAN :
       /\ mapOpen => variant = "worlds" /\ stepX = 0 /\ lift = 0
       /\ lift /= 0 => flyMode /\ stepX = 0
       /\ MoveCameraCall(stepX, lift, mapOpen)
  \/ \E x \in TeleportCoords : TeleportCall(x, StartBound)
  \/ \E code \in KeyCodes, repeat \in BOOLEAN, mapOpen \in BOOLEAN :
       /\ (code = "Space" /\ ~flyMode) => verticalVelocity = 0
       /\ KeydownCall(code, repeat, mapOpen)
  \/ \E ms \in Gaps : Elapse(ms)

SpecWalk == Init /\ [][NextWalk]_vars

\* C25: while a world is played, flyMode changes only in the keydown handler,
\* on an initial (not auto-repeated) keydown of Space that comes at most
\* DOUBLE_TAP_MS after the initial keydown of Space before it.
FlyModeToggled == worldActive /\ worldActive' /\ flyMode' /= flyMode

LeftWalking ==
  /\ ~flyMode
  /\ \/ call.op \in {"moveCamera", "teleport"}
     \/ /\ call.op = "keydown"
        /\ reachesSpace(call.args[1], call.args[2], call.args[3])
        /\ call.v <= DOUBLE_TAP_MS

\* C26: in walk mode a moveCamera step, a teleport and a toggle from fly to
\* walk leave the camera at or above the ground level of the column under it:
\* the terrain height of the rounded, clamped column plus PLAYER_HEIGHT.
C26_AboveGround ==
  LeftWalking =>
    cameraY >= groundLevelAt(Uncached(G), camera.x, camera.z).v

\* A moveCamera step has moved the camera past the edge of the world onto its
\* clamped position, standing on the ground of the edge column.
C26_Witness ==
  /\ ~flyMode
  /\ call.op = "moveCamera"
  /\ camera.x = WORLD_SIZE + CamClamp
  /\ cameraY = groundLevelAt(Uncached(G), camera.x, camera.z).v
  /\ verticalVelocity = 0

\* A double tap has taken the camera from fly mode below the ground into walk
\* mode.
C26_WitnessToggle ==
  /\ ~flyMode
  /\ call.op = "keydown"
  /\ call.v <= DOUBLE_TAP_MS
  /\ call.args = <<"Space", FALSE, FALSE>>
  /\ cameraY = groundLevelAt(Uncached(G), camera.x, camera.z).v
  /\ cameraY > CameraFloor

====
